---- MODULE Spec2Model ----
(***************************************************************************)
(* Easy21 environment, episode generator and the tabular learners of       *)
(* src/src/easy_21.rs, as state machines.                                   *)
(*                                                                         *)
(* SpecStep     one call of step(rng, state, action); the dealer playout   *)
(*              of Action::Stick is unrolled one loop iteration per step.  *)
(* SpecEpisode  one call of episode(rng, policy), one loop iteration per   *)
(*              step, for a policy that may answer with either action.     *)
(* SpecMC, SpecMCControl, SpecTD, SpecTDControl, SpecApprox, SpecControl   *)
(*              the learners, one call per episode.                        *)
(* SpecSarsa    td_lambda_control and approx_td_lambda_control together.   *)
(* SpecTable    get, set and update of V and Q with any state.             *)
(* SpecIndex    V::index and Q::index on the states of play.               *)
(* SpecFeatures Vector::cuboid_features with any state and action.         *)
(* SpecTape, SpecVecTape, SpecTapes                                        *)
(*              the tapes of src/src/ad.rs: builder calls, eval and grad,  *)
(*              one node of the pass per step.                             *)
(* SpecWorker, SpecWorkerFair                                              *)
(*              the thread of queryable_state (src/src/learn.rs) and the   *)
(*              frames of main_loop (src/src/main.rs).                     *)
(***************************************************************************)
EXTENDS Integers, Sequences, FiniteSets, TLC

VARIABLES
    pc,        \* position of the running call
    state,     \* State { dealer, player } the call works on
    action,    \* Action passed to step
    card,      \* the last Card drawn (`let card = Card::draw(rng)`)
    dealer,    \* `let mut dealer` of the Stick branch of step
    sample,    \* the Sample returned by step
    draws,     \* history: number of cards the dealer drew in this playout
    sawRed,    \* history: some card of this playout was Red
    state_actions, \* `state_actions` of episode: the trajectory so far
    reward,    \* the reward episode returns
    history,   \* history: per step of the episode, the state the policy was
               \* asked about, its answer and the sample step gave
    v,         \* the learner's V<(f64, i32)>: value and visit count per cell
    q,         \* the learner's Q<(f64, i32)>
    eligibility_traces, \* the learner's V<f64> or Q<f64> of traces
    episodes,  \* the learner's episode counter
    rms_error, \* the learner's cached rms_error field
    algorithm, \* which learner the learner state belongs to (enum Algorithm)
    occurrences, \* history: <<state, reward>> of every trajectory entry of
               \* every finished episode
    since,     \* history: for each cell that was the current cell in this
               \* episode, its trace right after it last was (`at`) and the
               \* number of steps taken since (`k`)
    graph,     \* the Tape: kind (ad::Tape or ad::vec::Tape), nodes, edges
    pending,   \* the rest of the order toposort gave the running pass
    evaluated, \* history: the nodes the running pass has handled
    output,    \* the `output` argument of the running grad
    tie,       \* the order in which toposort takes nodes that are ready
    last_grad, \* history: what the last grad left, if no eval came after
    result,    \* what the last call returned, or that it panicked
    req,       \* the request channel, sync_channel(2)
    resp,      \* the response channel, sync_channel(1)
    worker_state, \* `state` of the worker thread of queryable_state
    ui_state,  \* `state` of main, the copy the UI draws
    ui_pc,     \* position of main: in a frame of main_loop, or "closed" once
               \* it dropped req (sender) and resp (receiver)
    committed, \* history: the states the worker had between two calls of
               \* update
    produced,  \* history: the clone the worker made for the GetState it
               \* handled last
    resets     \* history: number of SetState requests main has sent

stepVars == <<card, dealer, draws, sawRed>>
episodeVars == <<state_actions, reward, history>>
learnVars == <<v, q, eligibility_traces, episodes, rms_error, algorithm,
               occurrences, since>>
tapeVars == <<graph, pending, evaluated, output, tie, last_grad>>
workerVars == <<req, resp, worker_state, ui_state, ui_pc, committed,
                 produced, resets>>
vars == <<pc, state, action, card, dealer, sample, draws, sawRed,
          state_actions, reward, history,
          v, q, eligibility_traces, episodes, rms_error, algorithm,
          occurrences, since,
          graph, pending, evaluated, output, tie, last_grad, result,
          req, resp, worker_state, ui_state, ui_pc, committed,
          produced, resets>>

(***************************************************************************)
(* Bounds of the model.                                                    *)
(***************************************************************************)
\* the dealer playout is cut off after this many cards
MaxDraws == 18
\* an episode is cut off after this many steps
MaxSteps == 3
\* outside SpecStep the rng yields only the first NumValues card values of
\* ValueOrder
NumValues == 2
\* a learner is called this many times
MaxEpisodes == 2
MaxApproxEpisodes == 1
\* a Tape gets this many nodes
MaxNodes == 3
ValueOrder == <<10, 1, 5, 3, 7, 2, 9, 4, 6, 8>>

(***************************************************************************)
(* Cards, states, actions.                                                 *)
(***************************************************************************)
Hit == "Hit"
Stick == "Stick"
Action == {Hit, Stick}

Black == "Black"
Red == "Red"
CardColor == {Black, Red}

\* Uniform::new_inclusive(1, 10)
MinCardValue == 1
MaxCardValue == 10

\* a draw whose values start one below: 0 and 1, with either colour
CardDrawFromZero == [value : MinCardValue - 1 .. MinCardValue, color : CardColor]

\* Card::draw: every value with either colour can come out of the rng
CardDraw == [value : MinCardValue..MaxCardValue, color : CardColor]

\* the cards the rng yields in the episode and learner specifications
DrawValues ==
    {ValueOrder[i] : i \in {j \in 1..NumValues : j <= Len(ValueOrder)}}
Deck == {c \in CardDraw : c.value \in DrawValues}

NoCard == [value |-> 0, color |-> "None"]

\* Card::add_to
add_to_swapped(c, x) == x + c.value * (IF c.color = Black THEN -1 ELSE 1)
add_to(c, x) == x + c.value * (IF c.color = Black THEN 1 ELSE -1)

\* fn is_bust: !(1..=21).contains(&x)
is_bust_off_by_one(x) == ~(x \in 1..20)
is_bust(x) == ~(x \in 1..21)

\* fn signum
signum_no_draw(x) == IF x > 0 THEN 1 ELSE -1
signum(x) == IF x > 0 THEN 1 ELSE IF x < 0 THEN -1 ELSE 0

\* the dealer sticks at this total (`if dealer >= 17`)
DealerSticksAt == 17

MkState(d, p) == [dealer |-> d, player |-> p]
MkSample(s, r, t) == [state |-> s, reward |-> r, terminal |-> t]
NoSample == MkSample(MkState(0, 0), 0, FALSE)

\* states step can be called in: both totals are not bust
LegalStates == {MkState(d, p) : d \in 1..21, p \in 1..21}

(***************************************************************************)
(* f64 values are modelled as exact fractions <<numerator, denominator>>   *)
(* in lowest terms with a positive denominator.                            *)
(***************************************************************************)
Abs(x) == IF x < 0 THEN 0 - x ELSE x

RECURSIVE GCD(_, _)
GCD(a, b) == IF b = 0 THEN a ELSE GCD(b, a % b)

Frac(n, d) ==
    LET g == GCD(Abs(n), Abs(d))
        sgn == IF d < 0 THEN -1 ELSE 1
    IN <<sgn * (n \div g), sgn * (d \div g)>>

F(n) == <<n, 1>>
FAdd(x, y) ==
    LET g == GCD(x[2], y[2])
    IN Frac(x[1] * (y[2] \div g) + y[1] * (x[2] \div g), (x[2] \div g) * y[2])
FNeg(x) == <<0 - x[1], x[2]>>
FSub(x, y) == FAdd(x, FNeg(y))
FMul(x, y) ==
    LET g1 == GCD(Abs(x[1]), y[2])
        g2 == GCD(Abs(y[1]), x[2])
    IN Frac((x[1] \div g1) * (y[1] \div g2), (x[2] \div g2) * (y[2] \div g1))
FDiv(x, y) == FMul(x, Frac(y[2], y[1]))
FLess(x, y) == FSub(x, y)[1] < 0
\* f64::max
FMax(x, y) == IF FLess(x, y) THEN y ELSE x

(***************************************************************************)
(* The tables V<T> and Q<T>: a Vec<T> of cube_size(MAX) cells.             *)
(***************************************************************************)
\* cube_index with rows one cell short
cube_index_short_rows(point, max) ==
    point[3] * max[1] * max[2] + point[2] * (max[1] - 1) + point[1]

\* fn cube_index(point, max)
cube_index(point, max) ==
    point[3] * max[1] * max[2] + point[2] * max[1] + point[1]

\* fn cube_size(max)
cube_size(max) == max[1] * max[2] * max[3]

V_MAX == <<41, 41, 1>>
Q_MAX == <<41, 41, 2>>

\* V::index
V_index(s) == cube_index(<<s.player + 10, s.dealer + 10, 0>>, V_MAX)

\* Q::index
Q_index(s, a) ==
    cube_index(<<s.player + 10, s.dealer + 10, IF a = Hit THEN 0 ELSE 1>>, Q_MAX)

\* The Vec<T> of a table is kept as the value every cell was last filled with
\* by init or map (`default`) and the cells that hold something else
\* (`cells`, by index): cell i holds cells[i] if it is listed, else default.
NoCells == [i \in {} |-> 0]
Vec_get(t, i) == IF i \in DOMAIN t.cells THEN t.cells[i] ELSE t.default
Vec_set(t, i, x) ==
    [t EXCEPT !.cells =
        IF x = t.default
          THEN [j \in DOMAIN t.cells \ {i} |-> t.cells[j]]
          ELSE (i :> x) @@ t.cells]

\* a Vec from the value of the cells not listed and the listed cells
Vec_of(default, cells) ==
    [default |-> default,
     cells |-> [i \in {j \in DOMAIN cells : cells[j] # default} |-> cells[i]]]

\* V::init, Q::init: `vec![v; cube_size(Self::MAX)]`
V_init(x) == [default |-> x, cells |-> NoCells]
Q_init(x) == [default |-> x, cells |-> NoCells]

\* V::get, Q::get
V_get(t, s) == Vec_get(t, V_index(s))
Q_get(t, s, a) == Vec_get(t, Q_index(s, a))

\* V::set, Q::set
V_set(t, s, x) == Vec_set(t, V_index(s), x)
Q_set(t, s, a, x) == Vec_set(t, Q_index(s, a), x)

\* the states whose cell V::index and Q::index put inside the table
TableStates == {MkState(d, p) : d \in (-10)..30, p \in (-10)..30}

\* the state of TableStates that V::index sends to cell i of a V, and the one
\* that Q::index sends, with either action, to cell i of a Q
V_state(i) == MkState((i \div V_MAX[1]) - 10, (i % V_MAX[1]) - 10)
Q_state(i) == V_state(i % (Q_MAX[1] * Q_MAX[2]))

\* the states of TableStates with a cell of tv (a V) or tq (a Q) that does not
\* hold the table's default
WrittenStates(tv, tq) ==
    {V_state(i) : i \in DOMAIN tv.cells} \cup {Q_state(i) : i \in DOMAIN tq.cells}

\* no call is running: the locals of step and episode hold nothing
NoLocals ==
    /\ state = MkState(0, 0)
    /\ action = Hit
    /\ card = NoCard
    /\ dealer = 0
    /\ sample = NoSample
    /\ draws = 0
    /\ sawRed = FALSE
    /\ state_actions = <<>>
    /\ reward = 0
    /\ history = <<>>

\* the value of an f64 field that was set to 0.0
RmsZero == [zero |-> TRUE, values |-> [default |-> F(0), cells |-> NoCells]]

\* a learner that is not in use
NoLearner ==
    /\ v = <<>>
    /\ q = <<>>
    /\ eligibility_traces = <<>>
    /\ episodes = 0
    /\ rms_error = RmsZero
    /\ algorithm = "None"
    /\ occurrences = <<>>
    /\ since = NoCells

\* no call has returned anything
NoResult == [returned |-> "nothing"]

\* no Tape is in use
NoTape ==
    /\ graph = [kind |-> "None", nodes |-> <<>>, edges |-> {}]
    /\ pending = <<>>
    /\ evaluated = {}
    /\ output = 0
    /\ tie = <<>>
    /\ last_grad = NoResult

\* queryable_state was not called
NoWorker ==
    /\ req = <<>>
    /\ resp = <<>>
    /\ worker_state = NoResult
    /\ ui_state = NoResult
    /\ ui_pc = "none"
    /\ committed = {}
    /\ produced = NoResult
    /\ resets = 0

(***************************************************************************)
(* step(rng, state, action)                                                *)
(***************************************************************************)
\* Action::Hit branch
StepHit ==
    /\ pc = "step"
    /\ action = Hit
    /\ \E c \in CardDraw :
         LET player == add_to(c, state.player) IN
         /\ card' = c
         /\ sample' = MkSample([state EXCEPT !.player = player],
                               IF is_bust(player) THEN -1 ELSE 0,
                               is_bust(player))
    /\ pc' = "done"
    /\ UNCHANGED <<state, action, dealer, draws, sawRed, episodeVars, learnVars>>
    /\ UNCHANGED <<tapeVars, workerVars, result>>

\* Action::Stick branch, `let mut dealer = state.dealer`
StepStick ==
    /\ pc = "step"
    /\ action = Stick
    /\ dealer' = state.dealer
    /\ pc' = "loop"
    /\ UNCHANGED <<state, action, card, sample, draws, sawRed, episodeVars, learnVars>>
    /\ UNCHANGED <<tapeVars, workerVars, result>>

\* loop iteration with dealer >= 17: the dealer sticks
DealerSticks ==
    /\ pc = "loop"
    /\ dealer >= DealerSticksAt
    /\ sample' = MkSample([state EXCEPT !.dealer = dealer],
                          signum(state.player - dealer), TRUE)
    /\ pc' = "done"
    /\ UNCHANGED <<state, action, card, dealer, draws, sawRed, episodeVars, learnVars>>
    /\ UNCHANGED <<tapeVars, workerVars, result>>

\* loop iteration with dealer < 17: the dealer hits, and busts or goes on
DealerHits ==
    /\ pc = "loop"
    /\ ~(dealer >= DealerSticksAt)
    /\ draws < MaxDraws
    /\ \E c \in CardDraw :
         LET d == add_to(c, dealer) IN
         /\ card' = c
         /\ dealer' = d
         /\ sawRed' = (sawRed \/ c.color = Red)
         /\ IF is_bust(d)
              THEN /\ sample' = MkSample([state EXCEPT !.dealer = d], 1, TRUE)
                   /\ pc' = "done"
              ELSE UNCHANGED <<sample, pc>>
    /\ draws' = draws + 1
    /\ UNCHANGED <<state, action, episodeVars, learnVars>>
    /\ UNCHANGED <<tapeVars, workerVars, result>>

InitStep ==
    /\ pc = "step"
    /\ state \in LegalStates
    /\ action \in Action
    /\ card = NoCard
    /\ dealer = 0
    /\ sample = NoSample
    /\ draws = 0
    /\ sawRed = FALSE
    /\ state_actions = <<>>
    /\ reward = 0
    /\ history = <<>>
    /\ NoLearner
    /\ NoTape
    /\ NoWorker
    /\ result = NoResult

NextStep == StepHit \/ StepStick \/ DealerSticks \/ DealerHits

SpecStep == InitStep /\ [][NextStep]_vars

(***************************************************************************)
(* Claims about step.                                                      *)
(***************************************************************************)
SignedValue(c) == IF c.color = Black THEN c.value ELSE 0 - c.value

\* C1: step(s, Hit) keeps the dealer total, adds the signed value of the one
\* card drawn (value 1..10, Black adds, Red subtracts) to the player total,
\* and is terminal with reward -1 exactly when the new player total is < 1
\* or > 21, otherwise non-terminal with reward 0.
C1_HitSample ==
    (pc = "done" /\ action = Hit) =>
        /\ card.value \in 1..10
        /\ sample.state.dealer = state.dealer
        /\ sample.state.player = state.player + SignedValue(card)
        /\ sample.terminal <=> (sample.state.player < 1 \/ sample.state.player > 21)
        /\ sample.terminal => sample.reward = -1
        /\ ~sample.terminal => sample.reward = 0

C1_Witness ==
    /\ pc = "done" /\ action = Hit
    /\ state.player = 12 /\ card = [value |-> 10, color |-> Black]
    /\ sample.terminal /\ sample.reward = -1

\* C2: step(s, Stick) returns a terminal sample with the player total of s;
\* a final dealer total outside [1,21] gives reward +1, otherwise the final
\* dealer total is in [17,21] and the reward is the sign of player - dealer;
\* the dealer draws a card only while its total is below 17.
C2_StickSample ==
    [][ /\ draws' # draws => dealer < 17
        /\ (pc' = "done" /\ action' = Stick) =>
             /\ sample'.terminal
             /\ sample'.state.player = state'.player
             /\ IF sample'.state.dealer < 1 \/ sample'.state.dealer > 21
                  THEN sample'.reward = 1
                  ELSE /\ sample'.state.dealer \in 17..21
                       /\ sample'.state.player > sample'.state.dealer => sample'.reward = 1
                       /\ sample'.state.player < sample'.state.dealer => sample'.reward = -1
                       /\ sample'.state.player = sample'.state.dealer => sample'.reward = 0
      ]_vars

C2_Witness ==
    /\ pc = "done" /\ action = Stick
    /\ draws = 2 /\ sample.state.dealer = state.player /\ sample.reward = 0

\* C3 (as claimed): step(s, Stick) returns after at most 17 dealer draws for
\* every sequence of drawn cards.
C3_AtMost17Draws == action = Stick => draws <= 17

\* C3 (amended): step(s, Stick) returns a terminal sample after at most 17
\* dealer draws for every sequence of drawn cards without a Red card; a Red
\* card lowers the total, so over all sequences the draws have no bound.
C3_AtMost17BlackDraws ==
    /\ (action = Stick /\ ~sawRed) => draws <= 17
    /\ (pc = "done" /\ action = Stick) => sample.terminal

C3_Witness ==
    /\ pc = "done" /\ action = Stick /\ ~sawRed
    /\ state.dealer = 1 /\ draws = 16 /\ sample.terminal

\* C4 (as claimed): in the dealer playout the total increases by at least 1
\* with every card the dealer draws.
C4_DealerIncreases == [][draws' = draws + 1 => dealer' >= dealer + 1]_vars

\* C4 (amended): every card the dealer draws changes the total by its signed
\* value: a Black card raises it by 1..10, a Red card lowers it by 1..10.
C4_DealerSignedChange ==
    [][draws' = draws + 1 =>
         /\ card'.color = Black => (dealer' - dealer) \in 1..10
         /\ card'.color = Red => (dealer - dealer') \in 1..10
      ]_vars

C4_Witness ==
    /\ pc = "loop" /\ draws = 2 /\ card.color = Red
    /\ dealer < state.dealer

(***************************************************************************)
(* step as a relation: the samples step(rng, s, a) can return when the rng *)
(* yields the cards of `cards`.                                            *)
(***************************************************************************)
\* the totals the dealer can stand at on entry of a loop iteration
RECURSIVE PlayoutTotals(_, _, _)
PlayoutTotals(cards, frontier, seen) ==
    IF frontier \subseteq seen THEN seen
    ELSE LET fresh == frontier \ seen
             hits == {add_to(c, d) : c \in cards,
                                     d \in {x \in fresh : x < DealerSticksAt}}
         IN PlayoutTotals(cards, {d \in hits : ~is_bust(d)}, seen \cup fresh)

\* the totals below 17 the playout started at d0 can stand at
DealerHitsAt(cards, d0) ==
    {d \in PlayoutTotals(cards, {d0}, {}) : d < DealerSticksAt}

\* the totals the dealer of the playout started at d0 can stick at
DealerSticksWith(cards, d0) ==
    {d \in PlayoutTotals(cards, {d0}, {}) : d >= DealerSticksAt}

\* the totals the dealer of the playout started at d0 can go bust with
DealerBustsWith(cards, d0) ==
    {d \in {add_to(c, x) : c \in cards, x \in DealerHitsAt(cards, d0)} : is_bust(d)}

step(cards, s, a) ==
    IF a = Hit
      THEN {MkSample([s EXCEPT !.player = add_to(c, s.player)],
                     IF is_bust(add_to(c, s.player)) THEN -1 ELSE 0,
                     is_bust(add_to(c, s.player))) : c \in cards}
      ELSE {MkSample([s EXCEPT !.dealer = d], signum(s.player - d), TRUE) :
                d \in DealerSticksWith(cards, s.dealer)}
           \cup
           {MkSample([s EXCEPT !.dealer = d], 1, TRUE) :
                d \in DealerBustsWith(cards, s.dealer)}

(***************************************************************************)
(* episode(rng, policy)                                                    *)
(***************************************************************************)
\* State::init: one card value each for dealer and player, colour unused
State_init(cards) == {MkState(cd.value, cp.value) : cd \in cards, cp \in cards}

\* fn example_policy
example_policy(s) == IF s.player >= 20 THEN Stick ELSE Hit

\* fn epsilon_greedy: the actions it can answer with, given the values of
\* q.get_q(state, Hit) and q.get_q(state, Stick); rng.gen::<f64>() yields any
\* value of [0, 1)
epsilon_greedy(eps, q_hit, q_stick) ==
    LET threshold == IF FLess(q_stick, q_hit)
                       THEN FDiv(eps, F(2))
                       ELSE FSub(F(1), FDiv(eps, F(2)))
    IN {a \in Action : \/ a = Stick /\ FLess(F(0), threshold)
                       \/ a = Hit /\ FLess(threshold, F(1))}

\* the closure greedy_episode hands to episode
greedy_policy(s) ==
    LET visited == V_get(v, s)[2]
        eps == FDiv(F(1), FAdd(F(10), Frac(visited, 100000)))
    IN epsilon_greedy(eps, Q_get(q, s, Hit)[1], Q_get(q, s, Stick)[1])

\* the answers the policy handed to episode can give in state s
PolicyAnswers(policy, s) ==
    CASE policy = "example_policy" -> {example_policy(s)}
      [] policy = "greedy_episode" -> greedy_policy(s)
      [] policy = "any" -> Action

\* `let mut state = State::init(rng); let mut state_actions = vec![]`
EpisodeBegin(at, next) ==
    /\ pc = at
    /\ state' \in State_init(Deck)
    /\ state_actions' = <<>>
    /\ history' = <<>>
    /\ pc' = next
    /\ UNCHANGED <<action, sample, reward, stepVars>>

\* the entry (state, action) is pushed after the state moved on
EpisodeLoopPushLate(at, policy, done) ==
    /\ pc = at
    /\ Len(state_actions) < MaxSteps
    /\ \E a \in PolicyAnswers(policy, state) : \E smp \in step(Deck, state, a) :
         /\ action' = a
         /\ state_actions' = Append(state_actions, <<smp.state, a>>)
         /\ history' = Append(history, [state |-> state, action |-> a, sample |-> smp])
         /\ sample' = smp
         /\ state' = smp.state
         /\ IF smp.terminal
              THEN reward' = smp.reward /\ pc' = done
              ELSE UNCHANGED <<reward, pc>>
    /\ UNCHANGED stepVars

\* one iteration of the loop of episode
EpisodeLoop(at, policy, done) ==
    /\ pc = at
    /\ Len(state_actions) < MaxSteps
    /\ \E a \in PolicyAnswers(policy, state) : \E smp \in step(Deck, state, a) :
         /\ action' = a
         /\ state_actions' = Append(state_actions, <<state, a>>)
         /\ history' = Append(history, [state |-> state, action |-> a, sample |-> smp])
         /\ sample' = smp
         /\ state' = smp.state
         /\ IF smp.terminal
              THEN reward' = smp.reward /\ pc' = done
              ELSE UNCHANGED <<reward, pc>>
    /\ UNCHANGED stepVars

\* the locals of a finished episode go out of scope when the learner returns
EpisodeEnd ==
    /\ state' = MkState(0, 0)
    /\ action' = Hit
    /\ sample' = NoSample
    /\ state_actions' = <<>>
    /\ reward' = 0
    /\ history' = <<>>

InitEpisode ==
    /\ pc = "episode"
    /\ NoLocals
    /\ NoLearner
    /\ NoTape
    /\ NoWorker
    /\ result = NoResult

EpisodeStart == EpisodeBegin("episode", "loop") /\ UNCHANGED learnVars /\ UNCHANGED <<tapeVars, workerVars, result>>
EpisodeIteration == EpisodeLoop("loop", "any", "returned") /\ UNCHANGED learnVars /\ UNCHANGED <<tapeVars, workerVars, result>>

NextEpisode == EpisodeStart \/ EpisodeIteration

SpecEpisode == InitEpisode /\ [][NextEpisode]_vars

\* C5: episode starts from a state whose totals are one card value (1..10)
\* each and returns a non-empty trajectory whose i-th entry is the state the
\* policy was asked about in step i and its answer; each step starts in the
\* state the step before produced, every step but the last produced a
\* non-terminal sample, the last a terminal one, whose reward is returned.
C5_Episode ==
    pc = "returned" =>
        /\ Len(state_actions) >= 1
        /\ Len(history) = Len(state_actions)
        /\ state_actions[1][1].dealer \in 1..10
        /\ state_actions[1][1].player \in 1..10
        /\ \A i \in 1..Len(state_actions) :
             /\ state_actions[i] = <<history[i].state, history[i].action>>
             /\ history[i].sample.terminal <=> i = Len(state_actions)
             /\ i > 1 => history[i].state = history[i-1].sample.state
        /\ reward = history[Len(history)].sample.reward

C5_Witness ==
    /\ pc = "returned"
    /\ Len(state_actions) = 3
    /\ state_actions[2][1] # state_actions[1][1]
    /\ state_actions[3][2] = Stick
    /\ reward = 1

(***************************************************************************)
(* monte_carlo_prediction(rng, example_policy, mc_state)                   *)
(***************************************************************************)
\* the visit count is stored without the increment
incremental_mean_stale_n(cell, r) ==
    LET value == cell[1]
        n == cell[2]
        new_n == n + 1
        new_value == FAdd(value, FMul(FDiv(F(1), F(new_n)), FSub(F(r), value)))
    IN <<new_value, n>>

\* `let new_n = n + 1; let new_value = value + 1.0 / new_n * (reward - value)`
incremental_mean(cell, r) ==
    LET value == cell[1]
        n == cell[2]
        new_n == n + 1
        new_value == FAdd(value, FMul(FDiv(F(1), F(new_n)), FSub(F(r), value)))
    IN <<new_value, new_n>>

\* `for (state, _) in state_actions { ... mc_state.v.set(..) }`
RECURSIVE mc_prediction_sweep(_, _, _)
mc_prediction_sweep(t, sa, r) ==
    IF sa = <<>> THEN t
    ELSE mc_prediction_sweep(
             V_set(t, Head(sa)[1], incremental_mean(V_get(t, Head(sa)[1]), r)),
             Tail(sa), r)

\* MCState::init
InitMC ==
    /\ pc = "idle"
    /\ NoLocals
    /\ v = V_init(<<F(0), 0>>)
    /\ q = <<>>
    /\ eligibility_traces = <<>>
    /\ episodes = 0
    /\ rms_error = RmsZero
    /\ algorithm = "MonteCarloPrediction"
    /\ occurrences = <<>>
    /\ since = NoCells
    /\ NoTape
    /\ NoWorker
    /\ result = NoResult

\* `mc_state.episodes += 1` and the start of episode
MCPredictionCall ==
    /\ algorithm = "MonteCarloPrediction"
    /\ episodes < MaxEpisodes
    /\ EpisodeBegin("idle", "mc_episode")
    /\ episodes' = episodes + 1
    /\ UNCHANGED <<v, q, eligibility_traces, rms_error, algorithm, occurrences, since>>
    /\ UNCHANGED <<tapeVars, workerVars, result>>

MCPredictionEpisode ==
    /\ EpisodeLoop("mc_episode", "example_policy", "mc_update")
    /\ UNCHANGED learnVars
    /\ UNCHANGED <<tapeVars, workerVars, result>>

\* the loop over the trajectory episode returned
MCPredictionUpdate ==
    /\ pc = "mc_update"
    /\ v' = mc_prediction_sweep(v, state_actions, reward)
    /\ occurrences' = occurrences \o [i \in 1..Len(state_actions) |->
                                         <<state_actions[i][1], reward>>]
    /\ pc' = "idle"
    /\ EpisodeEnd
    /\ UNCHANGED <<stepVars, q, eligibility_traces, episodes, rms_error, algorithm,
                   since>>
    /\ UNCHANGED <<tapeVars, workerVars, result>>

NextMC == MCPredictionCall \/ MCPredictionEpisode \/ MCPredictionUpdate

SpecMC == InitMC /\ [][NextMC]_vars

\* the number of entries of log whose state is s, and the sum of their rewards
RECURSIVE Occurrences(_, _)
Occurrences(log, s) ==
    IF log = <<>> THEN 0
    ELSE (IF Head(log)[1] = s THEN 1 ELSE 0) + Occurrences(Tail(log), s)

RECURSIVE RewardSum(_, _)
RewardSum(log, s) ==
    IF log = <<>> THEN 0
    ELSE (IF Head(log)[1] = s THEN Head(log)[2] ELSE 0) + RewardSum(Tail(log), s)

mc_control_entry_v_uncounted(qv, s, a, r) ==
    LET q1 == Q_set(qv[1], s, a, incremental_mean(Q_get(qv[1], s, a), r))
        q_hit == Q_get(q1, s, Hit)[1]
        q_stick == Q_get(q1, s, Stick)[1]
        v1 == V_set(qv[2], s, <<FMax(q_hit, q_stick), V_get(qv[2], s)[2]>>)
    IN <<q1, v1>>

\* V is set from Q as it was before the update of Q
mc_control_entry_v_first(qv, s, a, r) ==
    LET q_hit == Q_get(qv[1], s, Hit)[1]
        q_stick == Q_get(qv[1], s, Stick)[1]
        v1 == V_set(qv[2], s, <<FMax(q_hit, q_stick), V_get(qv[2], s)[2] + 1>>)
        q1 == Q_set(qv[1], s, a, incremental_mean(Q_get(qv[1], s, a), r))
    IN <<q1, v1>>

\* the body of the loop over the trajectory: "Update Q", then "Update V"
mc_control_entry(qv, s, a, r) ==
    LET q1 == Q_set(qv[1], s, a, incremental_mean(Q_get(qv[1], s, a), r))
        q_hit == Q_get(q1, s, Hit)[1]
        q_stick == Q_get(q1, s, Stick)[1]
        v1 == V_set(qv[2], s, <<FMax(q_hit, q_stick), V_get(qv[2], s)[2] + 1>>)
    IN <<q1, v1>>

\* `for (state, action) in state_actions { ... }` on the pair <<q, v>>
RECURSIVE mc_control_sweep(_, _, _)
mc_control_sweep(qv, sa, r) ==
    IF sa = <<>> THEN qv
    ELSE mc_control_sweep(mc_control_entry(qv, Head(sa)[1], Head(sa)[2], r),
                          Tail(sa), r)

\* MCControlState::init
InitMCControl ==
    /\ pc = "idle"
    /\ NoLocals
    /\ v = V_init(<<F(0), 0>>)
    /\ q = Q_init(<<F(0), 0>>)
    /\ eligibility_traces = <<>>
    /\ episodes = 0
    /\ rms_error = RmsZero
    /\ algorithm = "MonteCarloControl"
    /\ occurrences = <<>>
    /\ since = NoCells
    /\ NoTape
    /\ NoWorker
    /\ result = NoResult

\* the start of greedy_episode
MCControlCall ==
    /\ algorithm = "MonteCarloControl"
    /\ episodes < MaxEpisodes
    /\ EpisodeBegin("idle", "mcc_episode")
    /\ UNCHANGED learnVars
    /\ UNCHANGED <<tapeVars, workerVars, result>>

MCControlEpisode ==
    /\ EpisodeLoop("mcc_episode", "greedy_episode", "mcc_update")
    /\ UNCHANGED learnVars
    /\ UNCHANGED <<tapeVars, workerVars, result>>

\* the loop over the trajectory and "Inc episodes"
MCControlUpdate ==
    /\ pc = "mcc_update"
    /\ q' = mc_control_sweep(<<q, v>>, state_actions, reward)[1]
    /\ v' = mc_control_sweep(<<q, v>>, state_actions, reward)[2]
    /\ episodes' = episodes + 1
    /\ pc' = "idle"
    /\ EpisodeEnd
    /\ UNCHANGED <<stepVars, eligibility_traces, rms_error, algorithm, occurrences,
                   since>>
    /\ UNCHANGED <<tapeVars, workerVars, result>>

NextMCControl == MCControlCall \/ MCControlEpisode \/ MCControlUpdate

SpecMCControl == InitMCControl /\ [][NextMCControl]_vars

\* x is the larger of y and z
IsMaxOf(x, y, z) == /\ x \in {y, z}
                    /\ ~FLess(x, y)
                    /\ ~FLess(x, z)

\* C7: between monte_carlo_control calls, for every state s the value in
\* V[s] is the larger of the values in Q[s, Hit] and Q[s, Stick].
C7_VIsMaxQ ==
    pc = "idle" =>
        /\ \A s \in WrittenStates(v, q) :
              /\ s \in TableStates
              /\ IsMaxOf(V_get(v, s)[1], Q_get(q, s, Hit)[1], Q_get(q, s, Stick)[1])
        \* every other state: its cells hold what V::init and Q::init put there
        /\ IsMaxOf(v.default[1], q.default[1], q.default[1])

C7_Witness ==
    /\ pc = "idle"
    /\ \E s \in State_init(Deck) :
         /\ Q_get(q, s, Hit)[1] = F(-1)
         /\ Q_get(q, s, Stick)[1] = F(1)
         /\ V_get(v, s) = <<F(1), 2>>

(***************************************************************************)
(* td_lambda_prediction(rng, 0.5, example_policy, td_state) and            *)
(* td_lambda_control(rng, 0.6, td_state)                                   *)
(***************************************************************************)
\* the lambda TDState::update and TDControlState::update pass
lambda_prediction == Frac(5, 10)
lambda_control == Frac(6, 10)

\* `eligibility_traces.map(|_| 0.0)`
traces_reset(e) == Vec_of(F(0), [i \in DOMAIN e.cells |-> F(0)])

\* `eligibility_traces.map(|v| v * lambda)`
traces_decay(e, lambda) ==
    Vec_of(FMul(e.default, lambda), [i \in DOMAIN e.cells |-> FMul(e.cells[i], lambda)])

\* `eligibility_traces.update(&state, |v| v + 1.0)`, i the cell of the state
\* (control: of the state and action)
traces_bump(e, i) == Vec_set(e, i, FAdd(Vec_get(e, i), F(1)))

\* the current cell is incremented before the decay
traces_step_bump_first(e, i, lambda) == traces_decay(traces_bump(e, i), lambda)

\* "Update eligibility traces"
traces_step(e, i, lambda) == traces_bump(traces_decay(e, lambda), i)

\* the closure of zip_with without the trace as a factor
td_cell_untraced(c, td_error, eligibility) ==
    LET alpha == FDiv(F(1), FAdd(F(10), F(c[2])))
    IN <<FAdd(c[1], FMul(alpha, td_error)), c[2]>>

\* the closure of zip_with with alpha taken from the visit count after the
\* increment
td_cell_visited_first(c, td_error, eligibility) ==
    LET alpha == FDiv(F(1), FAdd(F(10), F(c[2] + 1)))
    IN <<FAdd(c[1], FMul(FMul(alpha, td_error), eligibility)), c[2]>>

\* the closure of zip_with: `(v + alpha * td_error * eligibility, *n)` with
\* `alpha = 1.0 / (10.0 + *n as f64)`
td_cell(c, td_error, eligibility) ==
    LET alpha == FDiv(F(1), FAdd(F(10), F(c[2])))
    IN <<FAdd(c[1], FMul(FMul(alpha, td_error), eligibility)), c[2]>>

\* `t.zip_with(&eligibility_traces, ...)` over all cells
td_sweep(t, e, td_error) ==
    Vec_of(td_cell(t.default, td_error, e.default),
           [i \in DOMAIN t.cells \cup DOMAIN e.cells |->
               td_cell(Vec_get(t, i), td_error, Vec_get(e, i))])

\* `t.update(.., |(v, n)| (*v, n + 1))` on cell i
visit(t, i) == Vec_set(t, i, <<Vec_get(t, i)[1], Vec_get(t, i)[2] + 1>>)

\* history: cell i was the current cell of a step taken with the traces e
SinceStep(e, i, lambda) ==
    [j \in DOMAIN since \cup {i} |->
        IF j = i THEN [at |-> FAdd(FMul(lambda, Vec_get(e, i)), F(1)), k |-> 0]
                 ELSE [at |-> since[j].at, k |-> since[j].k + 1]]

\* one more step of the episode in the history
Logged(a, smp) ==
    Append(history, [state |-> state, action |-> a, sample |-> smp])

\* TDState::init
InitTDPrediction ==
    /\ pc = "idle"
    /\ NoLocals
    /\ v = V_init(<<F(0), 0>>)
    /\ q = <<>>
    /\ eligibility_traces = V_init(F(0))
    /\ episodes = 0
    /\ rms_error = RmsZero
    /\ algorithm = "TDLambdaPrediction"
    /\ occurrences = <<>>
    /\ since = NoCells
    /\ NoTape
    /\ NoWorker
    /\ result = NoResult

\* the call up to the loop: traces zeroed, State::init
TDPredictionCall ==
    /\ algorithm = "TDLambdaPrediction"
    /\ pc = "idle"
    /\ episodes < MaxEpisodes
    /\ eligibility_traces' = traces_reset(eligibility_traces)
    /\ state' \in State_init(Deck)
    /\ since' = NoCells
    /\ pc' = "tdp_loop"
    /\ UNCHANGED <<action, sample, state_actions, reward, history, stepVars,
                   v, q, episodes, rms_error, algorithm, occurrences>>
    /\ UNCHANGED <<tapeVars, workerVars, result>>

\* one iteration of the loop; after the last one `td_state.episodes += 1`
TDPredictionIteration ==
    /\ pc = "tdp_loop"
    /\ Len(history) < MaxSteps
    /\ \E a \in PolicyAnswers("example_policy", state) :
       \E smp \in step(Deck, state, a) :
       \E e \in {traces_step(eligibility_traces, V_index(state), lambda_prediction)} :
       \E td_error \in {FSub(FAdd(F(smp.reward), V_get(v, smp.state)[1]),
                             V_get(v, state)[1])} :
       \E v1 \in {td_sweep(v, e, td_error)} :
         LET next_state == smp.state
             i == V_index(state)
         IN /\ eligibility_traces' = e
            /\ v' = visit(v1, i)
            /\ since' = SinceStep(eligibility_traces, i, lambda_prediction)
            /\ IF smp.terminal
                 THEN /\ episodes' = episodes + 1
                      /\ pc' = "idle"
                      /\ EpisodeEnd
                 ELSE /\ state' = next_state
                      /\ action' = a
                      /\ sample' = smp
                      /\ history' = Logged(a, smp)
                      /\ UNCHANGED <<episodes, pc, state_actions, reward>>
    /\ UNCHANGED <<stepVars, q, rms_error, algorithm, occurrences>>
    /\ UNCHANGED <<tapeVars, workerVars, result>>

\* the values of a Q<(f64, i32)>, which Q::rms_error sums the squared
\* distances to the reference table of: the f64 it returns is kept as the
\* values it was computed from
Q_rms_error(t) ==
    [zero |-> FALSE,
     values |-> Vec_of(t.default[1], [i \in DOMAIN t.cells |-> t.cells[i][1]])]

\* `if td_state.episodes % 1000 == 0`
RmsPeriod == 1000

\* the TD error without the value of the next state and action
td_error_without_next(r, next_value, current_value) == FSub(F(r), current_value)

\* `(sample.reward as f64) + q(next_state, next_action) - q(state, action)`
td_error_of(r, next_value, current_value) ==
    FSub(FAdd(F(r), next_value), current_value)

\* eps of td_lambda_control for a state visited n times
td_control_eps(n) == FDiv(F(1), FAdd(F(10), Frac(n, 10000)))

\* `epsilon_greedy(rng, eps, &td_state.q, &s)` of td_lambda_control
td_control_policy(s) ==
    epsilon_greedy(td_control_eps(V_get(v, s)[2]),
                   Q_get(q, s, Hit)[1], Q_get(q, s, Stick)[1])

\* TDControlState::init
InitTDControl ==
    /\ pc = "idle"
    /\ NoLocals
    /\ v = V_init(<<F(0), 0>>)
    /\ q = Q_init(<<F(0), 0>>)
    /\ eligibility_traces = Q_init(F(0))
    /\ episodes = 0
    /\ rms_error = RmsZero
    /\ algorithm = "TDLambdaControl"
    /\ occurrences = <<>>
    /\ since = NoCells
    /\ NoTape
    /\ NoWorker
    /\ result = NoResult

\* the call up to the loop: traces zeroed, State::init, the first action
TDControlCall ==
    /\ algorithm = "TDLambdaControl"
    /\ pc = "idle"
    /\ episodes < MaxEpisodes
    /\ eligibility_traces' = traces_reset(eligibility_traces)
    /\ \E s \in State_init(Deck) : \E a \in td_control_policy(s) :
         /\ state' = s
         /\ action' = a
    /\ since' = NoCells
    /\ pc' = "tdc_loop"
    /\ UNCHANGED <<sample, state_actions, reward, history, stepVars,
                   v, q, episodes, rms_error, algorithm, occurrences>>
    /\ UNCHANGED <<tapeVars, workerVars, result>>

\* one iteration of the loop; after the last one `td_state.episodes += 1`
\* and the refresh of rms_error
TDControlIteration ==
    /\ pc = "tdc_loop"
    /\ Len(history) < MaxSteps
    /\ \E smp \in step(Deck, state, action) :
       \E next_action \in td_control_policy(smp.state) :
       \E e \in {traces_step(eligibility_traces, Q_index(state, action), lambda_control)} :
       \E td_error \in {td_error_of(smp.reward, Q_get(q, smp.state, next_action)[1],
                                    Q_get(q, state, action)[1])} :
       \E q1 \in {td_sweep(q, e, td_error)} :
       \E q2 \in {visit(q1, Q_index(state, action))} :
         LET next_state == smp.state
             i == Q_index(state, action)
             q_hit == Q_get(q2, state, Hit)[1]
             q_stick == Q_get(q2, state, Stick)[1]
         IN /\ eligibility_traces' = e
            /\ q' = q2
            /\ v' = V_set(v, state, <<FMax(q_hit, q_stick), V_get(v, state)[2] + 1>>)
            /\ since' = SinceStep(eligibility_traces, i, lambda_control)
            /\ IF smp.terminal
                 THEN /\ episodes' = episodes + 1
                      /\ rms_error' = IF (episodes + 1) % RmsPeriod = 0
                                        THEN Q_rms_error(q2) ELSE rms_error
                      /\ pc' = "idle"
                      /\ EpisodeEnd
                 ELSE /\ state' = next_state
                      /\ action' = next_action
                      /\ sample' = smp
                      /\ history' = Logged(action, smp)
                      /\ UNCHANGED <<episodes, rms_error, pc, state_actions, reward>>
    /\ UNCHANGED <<stepVars, algorithm, occurrences>>
    /\ UNCHANGED <<tapeVars, workerVars, result>>

NextTDPrediction == TDPredictionCall \/ TDPredictionIteration
NextTDControl == TDControlCall \/ TDControlIteration

SpecTDControl == InitTDControl /\ [][NextTDControl]_vars

SpecTD ==
    /\ InitTDPrediction \/ InitTDControl
    /\ [][TDPredictionCall \/ TDPredictionIteration
           \/ TDControlCall \/ TDControlIteration]_vars

\* lambda of the learner that is running
Lambda == IF algorithm = "TDLambdaPrediction" THEN lambda_prediction ELSE lambda_control

RECURSIVE FPow(_, _)
FPow(x, k) == IF k = 0 THEN F(1) ELSE FMul(x, FPow(x, k - 1))

\* C8: the traces are all zero when an episode starts; a step multiplies
\* every trace by lambda and then adds 1 to the trace of the current cell, so
\* a cell that was current and then was not for k steps holds lambda^k times
\* what it held right after its increment, and a cell that was never current
\* in the episode holds zero.
C8_TraceDecay ==
    algorithm \in {"TDLambdaPrediction", "TDLambdaControl"} =>
        /\ eligibility_traces.default = F(0)
        /\ DOMAIN eligibility_traces.cells = DOMAIN since
        /\ \A i \in DOMAIN since :
              /\ ~FLess(since[i].at, F(1))
              /\ eligibility_traces.cells[i] = FMul(since[i].at, FPow(Lambda, since[i].k))
        /\ (pc \in {"tdp_loop", "tdc_loop"} /\ history = <<>>) =>
              eligibility_traces.cells = NoCells

C8_Witness ==
    /\ algorithm = "TDLambdaControl"
    /\ episodes = 1
    /\ pc = "tdc_loop"
    /\ Len(history) = 2
    /\ \E i \in DOMAIN since :
         /\ since[i].k = 1
         /\ since[i].at = F(1)
         /\ Vec_get(eligibility_traces, i) = Frac(3, 5)
    /\ \E i \in DOMAIN since :
         /\ since[i].k = 0
         /\ Vec_get(eligibility_traces, i) = F(1)

\* C9: between td_lambda_control calls, for every state s the value in V[s]
\* is the larger of the values in Q[s, Hit] and Q[s, Stick].
C9_VIsMaxQ ==
    (algorithm = "TDLambdaControl" /\ pc = "idle") =>
        /\ \A s \in WrittenStates(v, q) :
              IsMaxOf(V_get(v, s)[1], Q_get(q, s, Hit)[1], Q_get(q, s, Stick)[1])
        /\ IsMaxOf(v.default[1], q.default[1], q.default[1])

(***************************************************************************)
(* approx_td_lambda_control(rng, 0.1, approx_state)                        *)
(***************************************************************************)
\* the lambda ApproxState::update passes
lambda_approx == Frac(1, 10)
\* `let eps = 0.05`
approx_eps == Frac(5, 100)
\* `let alpha = 0.0001`
approx_alpha == Frac(1, 10000)

VectorLen == 36
\* Vector::init
Vector_init == [i \in 1..VectorLen |-> F(0)]

dealer_intervals == <<<<1, 4>>, <<4, 7>>, <<7, 10>>>>
player_intervals == <<<<1, 6>>, <<4, 9>>, <<7, 12>>, <<10, 15>>, <<13, 18>>, <<16, 21>>>>
feature_actions == <<Hit, Stick>>
contains(interval, x) == interval[1] <= x /\ x <= interval[2]

\* the pushes of the loop over the actions, Stick taken first
action_pushes_stick_first(s, a, dealer_interval, player_interval) ==
    [k \in 1..Len(feature_actions) |->
        IF /\ contains(dealer_interval, s.dealer)
           /\ contains(player_interval, s.player)
           /\ a = feature_actions[Len(feature_actions) + 1 - k]
          THEN F(1) ELSE F(0)]

\* `for a in &[Action::Hit, Action::Stick] { .. result.push(..) }`
action_pushes(s, a, dealer_interval, player_interval) ==
    [k \in 1..Len(feature_actions) |->
        IF /\ contains(dealer_interval, s.dealer)
           /\ contains(player_interval, s.player)
           /\ a = feature_actions[k]
          THEN F(1) ELSE F(0)]

\* `for player_interval in &[..] { .. }`: the pushes of the six passes, in
\* their order
player_pushes(s, a, dealer_interval) ==
    action_pushes(s, a, dealer_interval, player_intervals[1])
        \o action_pushes(s, a, dealer_interval, player_intervals[2])
        \o action_pushes(s, a, dealer_interval, player_intervals[3])
        \o action_pushes(s, a, dealer_interval, player_intervals[4])
        \o action_pushes(s, a, dealer_interval, player_intervals[5])
        \o action_pushes(s, a, dealer_interval, player_intervals[6])

\* Vector::cuboid_features: `for dealer_interval in &[..] { .. }`, the pushes
\* of the three passes in their order
cuboid_features(s, a) ==
    player_pushes(s, a, dealer_intervals[1])
        \o player_pushes(s, a, dealer_intervals[2])
        \o player_pushes(s, a, dealer_intervals[3])

RECURSIVE FSum(_, _, _)
\* the sum of xs[lo..hi]
FSum(xs, lo, hi) ==
    IF lo > hi THEN F(0)
    ELSE IF lo = hi THEN xs[lo]
    ELSE LET mid == (lo + hi) \div 2
         IN FAdd(FSum(xs, lo, mid), FSum(xs, mid + 1, hi))

\* Vector::get_q
Vector_get_q(w, s, a) ==
    LET x == cuboid_features(s, a)
    IN FSum([i \in 1..VectorLen |-> FMul(x[i], w[i])], 1, VectorLen)

\* replacing traces: a feature that is active sets its trace to 1
approx_traces_step_replacing(e, x, lambda) ==
    [i \in 1..VectorLen |-> IF x[i] = F(1) THEN F(1) ELSE FMul(lambda, e[i])]

\* `eligibility_traces.zip_with(&cuboid_features(..), |e, x| lambda * e + x)`
approx_traces_step(e, x, lambda) ==
    [i \in 1..VectorLen |-> FAdd(FMul(lambda, e[i]), x[i])]

\* `q.zip_with(&eligibility_traces, |w, eligibility| w + alpha * td_error * eligibility)`
approx_sweep(w, e, td_error) ==
    [i \in 1..VectorLen |-> FAdd(w[i], FMul(FMul(approx_alpha, td_error), e[i]))]

\* `epsilon_greedy(rng, eps, &approx_state.q, &s)`
approx_policy(s) ==
    epsilon_greedy(approx_eps, Vector_get_q(q, s, Hit), Vector_get_q(q, s, Stick))

\* ApproxState::init
InitApprox ==
    /\ pc = "idle"
    /\ NoLocals
    /\ v = <<>>
    /\ q = Vector_init
    /\ eligibility_traces = Vector_init
    /\ episodes = 0
    /\ rms_error = RmsZero
    /\ algorithm = "ApproxTDLambdaControl"
    /\ occurrences = <<>>
    /\ since = NoCells
    /\ NoTape
    /\ NoWorker
    /\ result = NoResult

\* the call up to the loop
ApproxCall ==
    /\ algorithm = "ApproxTDLambdaControl"
    /\ pc = "idle"
    /\ episodes < MaxApproxEpisodes
    /\ eligibility_traces' = Vector_init
    /\ \E s \in State_init(Deck) : \E a \in approx_policy(s) :
         /\ state' = s
         /\ action' = a
    /\ pc' = "approx_loop"
    /\ UNCHANGED <<sample, state_actions, reward, history, stepVars,
                   v, q, episodes, rms_error, algorithm, occurrences, since>>
    /\ UNCHANGED <<tapeVars, workerVars, result>>

\* one iteration of the loop; after the last one `approx_state.episodes += 1`
\* and `approx_state.rms_error = 0.0`
ApproxIteration ==
    /\ pc = "approx_loop"
    /\ Len(history) < MaxSteps
    /\ \E smp \in step(Deck, state, action) :
       \E next_action \in approx_policy(smp.state) :
       \E e \in {approx_traces_step(eligibility_traces,
                                    cuboid_features(state, action), lambda_approx)} :
       \E td_error \in {td_error_of(smp.reward, Vector_get_q(q, smp.state, next_action),
                                    Vector_get_q(q, state, action))} :
         /\ eligibility_traces' = e
         /\ q' = approx_sweep(q, e, td_error)
         /\ IF smp.terminal
              THEN /\ episodes' = episodes + 1
                   /\ rms_error' = IF (episodes + 1) % RmsPeriod = 0
                                     THEN RmsZero ELSE rms_error
                   /\ pc' = "idle"
                   /\ EpisodeEnd
              ELSE /\ state' = smp.state
                   /\ action' = next_action
                   /\ sample' = smp
                   /\ history' = Logged(action, smp)
                   /\ UNCHANGED <<episodes, rms_error, pc, state_actions, reward>>
    /\ UNCHANGED <<stepVars, v, algorithm, occurrences, since>>
    /\ UNCHANGED <<tapeVars, workerVars, result>>

NextApprox == ApproxCall \/ ApproxIteration

SpecApprox == InitApprox /\ [][NextApprox]_vars

(***************************************************************************)
(* The three control learners behind Easy21State: update, episodes and     *)
(* rms_error.                                                              *)
(***************************************************************************)
SpecControl ==
    /\ InitMCControl \/ InitTDControl \/ InitApprox
    /\ [][MCControlCall \/ MCControlEpisode \/ MCControlUpdate
           \/ TDControlCall \/ TDControlIteration
           \/ ApproxCall \/ ApproxIteration]_vars

\* Easy21State::rms_error of the three learners
rms_error_reported(alg, qq, cached) ==
    IF alg = "MonteCarloControl" THEN Q_rms_error(qq) ELSE cached

\* C10: a call of a control learner adds 1 to episodes; the reported
\* rms_error is the one of the Q the call leaves if the call brings episodes
\* to a multiple of 1000, and else is the one reported before the call.
C10_RmsEvery1000 ==
    [][(pc # "idle" /\ pc' = "idle") =>
         /\ episodes' = episodes + 1
         /\ rms_error_reported(algorithm', q', rms_error') =
              IF episodes' % RmsPeriod = 0
                THEN Q_rms_error(q')
                ELSE rms_error_reported(algorithm, q, rms_error)]_vars

(***************************************************************************)
(* src/src/ad.rs: the Tape over f64 and its graph.  NodeIndex i of the     *)
(* source is position i + 1 of graph.nodes.  An edge is kept once, however *)
(* often add_edge was called for it.                                       *)
(***************************************************************************)
\* the names, values and literals the callers pass
VarNames == {"x1", "x2"}
VarValues == {F(2)}
LitValues == {F(1)}

\* f64::sin and f64::cos, by the first terms of their series
f64_sin(x) == FSub(x, FDiv(FMul(x, FMul(x, x)), F(6)))
f64_cos(x) == FSub(F(1), FDiv(FMul(x, x), F(2)))

\* Node::new
Node_new(expr) == [expr |-> expr, z |-> F(0), w |-> F(0)]

\* Tape::init
Tape_init == [kind |-> "Tape", nodes |-> <<>>, edges |-> {}]

\* DiGraph::add_node, DiGraph::add_edge, DiGraph::reverse
add_node(g, node) == [g EXCEPT !.nodes = Append(@, node)]
add_edge(g, a, b) == [g EXCEPT !.edges = @ \cup {<<a, b>>}]
reverse(g) == [g EXCEPT !.edges = {<<e[2], e[1]>> : e \in @}]

\* the NodeIndex that add_node returns next
NewIndex(g) == Len(g.nodes) + 1
NodeIds == 1..Len(graph.nodes)

\* the NodeIndex fields of an Expr
Operands(expr) == {expr.args[i] : i \in DOMAIN expr.args}

\* Tape::add with the edge from `right` left out
add_without_right_edge(g, left, right) ==
    add_edge(add_node(g, Node_new([op |-> "Add", args |-> <<left, right>>])),
             left, NewIndex(g))

\* Tape::add
add(g, left, right) ==
    add_edge(add_edge(add_node(g, Node_new([op |-> "Add", args |-> <<left, right>>])),
                      left, NewIndex(g)),
             right, NewIndex(g))

\* Tape::mult
mult(g, left, right) ==
    add_edge(add_edge(add_node(g, Node_new([op |-> "Mult", args |-> <<left, right>>])),
                      left, NewIndex(g)),
             right, NewIndex(g))

\* Tape::var
var(g, name) == add_node(g, Node_new([op |-> "Var", args |-> <<>>, name |-> name]))

\* Tape::sin with the edge turned round
sin_edge_reversed(g, sub) ==
    add_edge(add_node(g, Node_new([op |-> "Sin", args |-> <<sub>>])), NewIndex(g), sub)

\* Tape::sin
sin(g, sub) ==
    add_edge(add_node(g, Node_new([op |-> "Sin", args |-> <<sub>>])), sub, NewIndex(g))

\* Tape::lit
lit(g, value) == add_node(g, Node_new([op |-> "Lit", args |-> <<>>, value |-> value]))

\* the orders in which toposort may take nodes that are ready: rank per node
Ties == {t \in [1..MaxNodes -> 1..MaxNodes] : \A i, j \in 1..MaxNodes : t[i] = t[j] => i = j}

RECURSIVE toposort_from(_, _, _, _)
\* petgraph::algo::toposort: the nodes in an order in which every edge goes
\* forward, Err(Cycle) if there is none; among the nodes all of whose
\* predecessors are placed, the one of the lowest rank in t comes next
toposort_from(left, edges, t, placed) ==
    IF left = {} THEN [ok |-> TRUE, order |-> placed]
    ELSE LET ready == {n \in left : \A e \in edges : e[2] = n => e[1] \notin left}
         IN IF ready = {} THEN [ok |-> FALSE, order |-> placed]
            ELSE LET n == CHOOSE m \in ready : \A k \in ready : t[m] <= t[k]
                 IN toposort_from(left \ {n}, edges, t, Append(placed, n))

toposort(g, t) == toposort_from(1..Len(g.nodes), g.edges, t, <<>>)

\* the callers build a tape, then evaluate and differentiate it
InitTape ==
    /\ pc = "tape"
    /\ NoLocals
    /\ NoLearner
    /\ NoWorker
    /\ graph = Tape_init
    /\ pending = <<>>
    /\ evaluated = {}
    /\ output = 0
    /\ tie = <<>>
    /\ last_grad = NoResult
    /\ result = NoResult

\* what a builder call leaves besides the graph
Built(new) ==
    /\ result' = [returned |-> "node", value |-> new]
    /\ last_grad' = NoResult
    /\ UNCHANGED <<pc, pending, evaluated, output, tie>>
    /\ UNCHANGED <<state, action, sample, stepVars, episodeVars, learnVars, workerVars>>

Tape_add ==
    /\ pc = "tape" /\ graph.kind = "Tape" /\ Len(graph.nodes) < MaxNodes
    /\ \E left \in NodeIds, right \in NodeIds : graph' = add(graph, left, right)
    /\ Built(NewIndex(graph))

Tape_mult ==
    /\ pc = "tape" /\ graph.kind = "Tape" /\ Len(graph.nodes) < MaxNodes
    /\ \E left \in NodeIds, right \in NodeIds : graph' = mult(graph, left, right)
    /\ Built(NewIndex(graph))

Tape_var ==
    /\ pc = "tape" /\ graph.kind = "Tape" /\ Len(graph.nodes) < MaxNodes
    /\ \E name \in VarNames : graph' = var(graph, name)
    /\ Built(NewIndex(graph))

Tape_sin ==
    /\ pc = "tape" /\ graph.kind = "Tape" /\ Len(graph.nodes) < MaxNodes
    /\ \E sub \in NodeIds : graph' = sin(graph, sub)
    /\ Built(NewIndex(graph))

Tape_lit ==
    /\ pc = "tape" /\ graph.kind = "Tape" /\ Len(graph.nodes) < MaxNodes
    /\ \E value \in LitValues : graph' = lit(graph, value)
    /\ Built(NewIndex(graph))

\* the `match self.node(ix).expr` of Tape::eval
eval_value(nodes, ix) ==
    LET expr == nodes[ix].expr IN
    CASE expr.op = "Add" -> FAdd(nodes[expr.args[1]].z, nodes[expr.args[2]].z)
      [] expr.op = "Mult" -> FMul(nodes[expr.args[1]].z, nodes[expr.args[2]].z)
      [] expr.op = "Var" -> nodes[ix].z
      [] expr.op = "Sin" -> f64_sin(nodes[expr.args[1]].z)
      [] expr.op = "Lit" -> expr.value

\* `for (ix, value) in var_values { node.z = *value }`, the callers giving
\* every Var node a value
set_var_values(nodes, values) ==
    [i \in DOMAIN nodes |->
        IF nodes[i].expr.op = "Var" THEN [nodes[i] EXCEPT !.z = values[i]] ELSE nodes[i]]

\* a pass that panics: in `toposort(..).unwrap()` if there is a cycle, or in
\* an array operation
Panicked(why) ==
    /\ pc' = "panicked"
    /\ result' = [returned |-> "panic", why |-> why]
    /\ UNCHANGED <<pending, evaluated>>

\* Tape::eval up to the loop
Tape_eval_begin ==
    /\ pc = "tape" /\ graph.kind = "Tape"
    /\ \E values \in [NodeIds -> VarValues], t \in Ties :
         LET g1 == [graph EXCEPT !.nodes = set_var_values(@, values)]
             sorted == toposort(g1, t)
         IN /\ graph' = g1
            /\ IF ~sorted.ok THEN Panicked("toposort")
               ELSE /\ pending' = sorted.order
                    /\ evaluated' = {}
                    /\ result' = [returned |-> "eval", value |-> F(0)]
                    /\ pc' = IF sorted.order = <<>> THEN "tape" ELSE "eval"
    /\ last_grad' = NoResult
    /\ UNCHANGED <<output, tie>>
    /\ UNCHANGED <<state, action, sample, stepVars, episodeVars, learnVars, workerVars>>

\* one iteration of the loop of Tape::eval, and the return after the last
Tape_eval_step ==
    /\ pc = "eval" /\ graph.kind = "Tape"
    /\ LET ix == Head(pending)
           value == eval_value(graph.nodes, ix)
       IN /\ graph' = [graph EXCEPT !.nodes[ix].z = value]
          /\ result' = [returned |-> "eval", value |-> value]
          /\ evaluated' = evaluated \cup {ix}
    /\ pending' = Tail(pending)
    /\ pc' = IF Tail(pending) = <<>> THEN "tape" ELSE "eval"
    /\ UNCHANGED <<output, tie, last_grad>>
    /\ UNCHANGED <<state, action, sample, stepVars, episodeVars, learnVars, workerVars>>

\* grad without `n.w = 0.0`
zero_w_skipped(nodes) == nodes

\* `for n in self.graph.node_weights_mut() { n.w = 0.0 }`
zero_w(nodes) == [i \in DOMAIN nodes |-> [nodes[i] EXCEPT !.w = F(0)]]

\* `node_weight_mut(i).unwrap().w += x`
add_w(nodes, i, x) == [nodes EXCEPT ![i].w = FAdd(@, x)]

\* the `match n.expr` of Tape::grad
grad_node(nodes, ix) ==
    LET expr == nodes[ix].expr
        w == nodes[ix].w
    IN CASE expr.op = "Add" ->
              add_w(add_w(nodes, expr.args[1], w), expr.args[2], w)
         [] expr.op = "Mult" ->
              LET left == expr.args[1]
                  right == expr.args[2]
                  n1 == add_w(nodes, left, FMul(w, nodes[right].z))
              IN add_w(n1, right, FMul(w, n1[left].z))
         [] expr.op = "Sin" ->
              add_w(nodes, expr.args[1], FMul(w, f64_cos(nodes[expr.args[1]].z)))
         [] OTHER -> nodes

\* `result.insert(name.clone(), n.w)`
insert(map, name, x) == [k \in DOMAIN map \cup {name} |-> IF k = name THEN x ELSE map[k]]

\* the HashMap::new()
EmptyMap == [k \in {} |-> F(0)]

\* the running grad has the output of the grad before it, and no eval and no
\* builder call came between the two
GradAgain == last_grad.returned = "grad" /\ last_grad.output = output

\* toposort is a function of the graph: the order grad took ready nodes in
\* before is the order it takes them in again
TiesOfGrad == IF tie = <<>> THEN Ties ELSE {tie}

\* Tape::grad up to the loop
Tape_grad_begin ==
    /\ pc = "tape" /\ graph.kind = "Tape"
    /\ \E out \in NodeIds, t \in TiesOfGrad :
         LET seeded == [zero_w(graph.nodes) EXCEPT ![out].w = F(1)]
             g1 == reverse([graph EXCEPT !.nodes = seeded])
             sorted == toposort(g1, t)
         IN /\ output' = out
            /\ tie' = t
            /\ graph' = g1
            /\ IF ~sorted.ok THEN Panicked("toposort")
               ELSE /\ pending' = sorted.order
                    /\ evaluated' = {}
                    /\ result' = [returned |-> "grad", value |-> EmptyMap]
                    /\ pc' = "grad"
    /\ UNCHANGED last_grad
    /\ UNCHANGED <<state, action, sample, stepVars, episodeVars, learnVars, workerVars>>

\* one iteration of the loop of Tape::grad, and after the last the graph is
\* reversed back and the map returned
Tape_grad_step ==
    /\ pc = "grad" /\ graph.kind = "Tape"
    /\ LET ix == Head(pending)
           n == graph.nodes[ix]
           g1 == [graph EXCEPT !.nodes = grad_node(@, ix)]
           map == IF n.expr.op = "Var" THEN insert(result.value, n.expr.name, n.w)
                                       ELSE result.value
           g2 == IF Tail(pending) = <<>> THEN reverse(g1) ELSE g1
       IN /\ graph' = g2
          /\ result' = [returned |-> "grad", value |-> map]
          /\ evaluated' = evaluated \cup {ix}
          /\ IF Tail(pending) = <<>>
               THEN /\ pc' = "tape"
                    /\ last_grad' = [returned |-> "grad", output |-> output,
                                     nodes |-> g2.nodes, value |-> map,
                                     again |-> GradAgain]
                    /\ output' = 0
               ELSE UNCHANGED <<pc, last_grad, output>>
    /\ pending' = Tail(pending)
    /\ UNCHANGED tie
    /\ UNCHANGED <<state, action, sample, stepVars, episodeVars, learnVars, workerVars>>

NextTape ==
    \/ Tape_add \/ Tape_mult \/ Tape_var \/ Tape_sin \/ Tape_lit
    \/ Tape_eval_begin \/ Tape_eval_step
    \/ Tape_grad_begin \/ Tape_grad_step

SpecTape == InitTape /\ [][NextTape]_vars

(***************************************************************************)
(* src/src/ad.rs, mod vec: the Tape over T = ArrayD<f64>.  An array is its *)
(* shape and its elements in row-major order.  What ndarray does with      *)
(* operands of unequal shapes is taken from its documentation: the right   *)
(* operand of `+=` is broadcast to the shape of the left one; the operands *)
(* of `&a + &b`, `&a - &b`, `&a * &b` are broadcast to a common shape from *)
(* ndarray 0.15 on, before that only the right one is broadcast; a shape   *)
(* that cannot be broadcast panics.  graph.co_broadcast says which ndarray *)
(* the build links.                                                        *)
(***************************************************************************)
RECURSIVE Product(_, _)
\* the product of shape[k..]
Product(shape, k) == IF k > Len(shape) THEN 1 ELSE shape[k] * Product(shape, k + 1)

Tensor(shape, data) == [shape |-> shape, data |-> data]
\* T::zeros(shape), T::ones(shape)
zeros(shape) == Tensor(shape, [i \in 1..Product(shape, 1) |-> F(0)])
ones(shape) == Tensor(shape, [i \in 1..Product(shape, 1) |-> F(1)])
\* arr0(x)
arr0(x) == Tensor(<<>>, <<x>>)

\* a panic inside an array operation
Fault == [fault |-> TRUE]
IsFault(x) == "fault" \in DOMAIN x

\* shape `from` can be broadcast to shape `to`
broadcastable(from, to) ==
    /\ Len(from) <= Len(to)
    /\ \A j \in 1..Len(from) : from[j] \in {1, to[j + Len(to) - Len(from)]}

\* the common shape two shapes are broadcast to, <<-1>> if there is none
co_broadcast_shape(a, b) ==
    LET n == IF Len(a) > Len(b) THEN Len(a) ELSE Len(b)
        da(k) == IF k + Len(a) - n >= 1 THEN a[k + Len(a) - n] ELSE 1
        db(k) == IF k + Len(b) - n >= 1 THEN b[k + Len(b) - n] ELSE 1
    IN IF \A k \in 1..n : da(k) = db(k) \/ da(k) = 1 \/ db(k) = 1
         THEN [k \in 1..n |-> IF da(k) = 1 THEN db(k) ELSE da(k)]
         ELSE <<-1>>

RECURSIVE SourceOffset(_, _, _, _)
\* the offset in an array of shape `from` of the element that element i0 of
\* its broadcast to shape `to` is a copy of, dimension j of `from` onwards
SourceOffset(from, to, i0, j) ==
    IF j > Len(from) THEN 0
    ELSE LET k == j + Len(to) - Len(from)
             index == (i0 \div Product(to, k + 1)) % to[k]
         IN (IF from[j] = 1 THEN 0 ELSE index * Product(from, j + 1))
            + SourceOffset(from, to, i0, j + 1)

\* ArrayBase::broadcast(to).unwrap()
broadcast(t, to) ==
    Tensor(to, [i \in 1..Product(to, 1) |->
                   t.data[SourceOffset(t.shape, to, i - 1, 1) + 1]])

\* one of f64's +, -, *
f64_op(op, x, y) ==
    CASE op = "+" -> FAdd(x, y)
      [] op = "-" -> FSub(x, y)
      [] op = "*" -> FMul(x, y)

\* two arrays of one shape, element by element
elementwise(op, a, b) ==
    Tensor(a.shape, [i \in DOMAIN a.data |-> f64_op(op, a.data[i], b.data[i])])

\* `&a + &b`, `&a - &b`, `&a * &b`
binary(op, a, b, co_broadcast) ==
    IF a.shape = b.shape THEN elementwise(op, a, b)
    ELSE IF broadcastable(b.shape, a.shape)
      THEN elementwise(op, a, broadcast(b, a.shape))
    ELSE IF co_broadcast /\ co_broadcast_shape(a.shape, b.shape) # <<-1>>
      THEN LET to == co_broadcast_shape(a.shape, b.shape)
           IN elementwise(op, broadcast(a, to), broadcast(b, to))
    ELSE Fault

\* `a += &b`
add_assign(a, b) ==
    IF IsFault(a) \/ IsFault(b) THEN Fault
    ELSE IF broadcastable(b.shape, a.shape)
      THEN elementwise("+", a, broadcast(b, a.shape))
    ELSE Fault

\* `x * &a` for an f64 x
scale(x, a) ==
    IF IsFault(a) THEN Fault
    ELSE Tensor(a.shape, [i \in DOMAIN a.data |-> FMul(x, a.data[i])])

\* `mat.into_dimensionality::<Ix2>().unwrap().dot(&vec.into_dimensionality::<Ix1>().unwrap())`
dot(mat, vec) ==
    IF Len(mat.shape) # 2 \/ Len(vec.shape) # 1 THEN Fault
    ELSE IF mat.shape[2] # vec.shape[1] THEN Fault
    ELSE Tensor(<<mat.shape[1]>>,
                [r \in 1..mat.shape[1] |->
                    FSum([c \in 1..mat.shape[2] |->
                             FMul(mat.data[(r - 1) * mat.shape[2] + c], vec.data[c])],
                         1, mat.shape[2])])

\* ArrayBase::t
transpose(t) ==
    IF Len(t.shape) # 2 THEN Tensor([k \in DOMAIN t.shape |-> t.shape[Len(t.shape) + 1 - k]],
                                    t.data)
    ELSE Tensor(<<t.shape[2], t.shape[1]>>,
                [i \in 1..Product(t.shape, 1) |->
                    t.data[((i - 1) % t.shape[1]) * t.shape[2] + ((i - 1) \div t.shape[1]) + 1]])

\* fn outer_product, on `a.into_dimensionality::<Ix1>().unwrap()` and b alike
outer_product(a, b) ==
    IF IsFault(a) \/ IsFault(b) THEN Fault
    ELSE IF Len(a.shape) # 1 \/ Len(b.shape) # 1 THEN Fault
    ELSE Tensor(<<a.shape[1], b.shape[1]>>,
                [i \in 1..(a.shape[1] * b.shape[1]) |->
                    FMul(a.data[((i - 1) \div b.shape[1]) + 1],
                         b.data[((i - 1) % b.shape[1]) + 1])])

\* fn sigma and fn sigma_deriv, by the first terms of their series at 0
sigma(x) == FAdd(Frac(1, 2), FDiv(x, F(4)))
sigma_deriv(x) == FSub(Frac(1, 4), FDiv(FMul(x, x), F(16)))

\* fn relu and fn relu_deriv
relu(x) == IF FLess(F(0), x) THEN x ELSE F(0)
relu_deriv(x) == IF FLess(F(0), x) THEN F(1) ELSE F(0)

\* `z.map(sigma)`, `z.map(relu)`, `z.map(sigma_deriv)`, `z.map(relu_deriv)`
map_sigma(t) == Tensor(t.shape, [i \in DOMAIN t.data |-> sigma(t.data[i])])
map_relu(t) == Tensor(t.shape, [i \in DOMAIN t.data |-> relu(t.data[i])])
map_sigma_deriv(t) == Tensor(t.shape, [i \in DOMAIN t.data |-> sigma_deriv(t.data[i])])
map_relu_deriv(t) == Tensor(t.shape, [i \in DOMAIN t.data |-> relu_deriv(t.data[i])])

\* the Loss arm of eval: the zip ends with the shorter of the two
loss_value(expected, actual) ==
    LET n == IF Len(expected.data) < Len(actual.data)
               THEN Len(expected.data) ELSE Len(actual.data)
        d(i) == FSub(expected.data[i], actual.data[i])
    IN arr0(FMul(Frac(-1, 2), FSum([i \in 1..n |-> FMul(d(i), d(i))], 1, n)))

\* the arrays and names the callers pass
vec2 == Tensor(<<2>>, <<F(1), F(1)>>)
vec3 == Tensor(<<3>>, <<F(1), F(2), F(3)>>)
mat23 == Tensor(<<2, 3>>, <<F(1), F(1), F(1), F(2), F(2), F(2)>>)
LitTensors == {vec3}
\* the value the callers give the Var nodes of a name
VarTensors == {[name \in {"w1", "b1"} |-> IF name = "w1" THEN mat23 ELSE vec2]}
ExpectedTensors == {Tensor(<<2>>, <<F(6), F(12)>>)}
VecVarNames == {"w1", "b1"}

\* vec::Node::new
VecNode_new(expr) == [expr |-> expr, z |-> zeros(<<0>>), w |-> zeros(<<0>>)]

\* vec::Tape::lit
vec_lit(g, value) ==
    add_node(g, VecNode_new([op |-> "LitVec", args |-> <<>>, value |-> value]))

\* vec::Tape::add_vec
add_vec(g, left, right) ==
    add_edge(add_edge(add_node(g, VecNode_new([op |-> "AddVec", args |-> <<left, right>>])),
                      left, NewIndex(g)),
             right, NewIndex(g))

\* vec::Tape::mult_mat
mult_mat(g, mat, vec) ==
    add_edge(add_edge(add_node(g, VecNode_new([op |-> "MultMat", args |-> <<mat, vec>>])),
                      mat, NewIndex(g)),
             vec, NewIndex(g))

\* vec::Tape::sigma
vec_sigma(g, vec) ==
    add_edge(add_node(g, VecNode_new([op |-> "Sigma", args |-> <<vec>>])), vec, NewIndex(g))

\* vec::Tape::relu
vec_relu(g, vec) ==
    add_edge(add_node(g, VecNode_new([op |-> "Relu", args |-> <<vec>>])), vec, NewIndex(g))

\* vec::Tape::var
vec_var(g, name) ==
    add_node(g, VecNode_new([op |-> "Var", args |-> <<>>, name |-> name]))

\* vec::Tape::loss
loss(g, expected, actual) ==
    add_edge(add_node(g, VecNode_new([op |-> "Loss", args |-> <<actual>>,
                                      expected |-> expected])),
             actual, NewIndex(g))

\* vec::Tape::init, linked with either ndarray
InitVecTape ==
    /\ pc = "tape"
    /\ NoLocals
    /\ NoLearner
    /\ NoWorker
    /\ \E co \in BOOLEAN :
         graph = [kind |-> "vec::Tape", nodes |-> <<>>, edges |-> {}, co_broadcast |-> co]
    /\ pending = <<>>
    /\ evaluated = {}
    /\ output = 0
    /\ tie = <<>>
    /\ last_grad = NoResult
    /\ result = NoResult

VecTape_lit ==
    /\ pc = "tape" /\ graph.kind = "vec::Tape" /\ Len(graph.nodes) < MaxNodes
    /\ \E value \in LitTensors : graph' = vec_lit(graph, value)
    /\ Built(NewIndex(graph))

VecTape_add_vec ==
    /\ pc = "tape" /\ graph.kind = "vec::Tape" /\ Len(graph.nodes) < MaxNodes
    /\ \E left \in NodeIds, right \in NodeIds : graph' = add_vec(graph, left, right)
    /\ Built(NewIndex(graph))

VecTape_mult_mat ==
    /\ pc = "tape" /\ graph.kind = "vec::Tape" /\ Len(graph.nodes) < MaxNodes
    /\ \E mat \in NodeIds, vec \in NodeIds : graph' = mult_mat(graph, mat, vec)
    /\ Built(NewIndex(graph))

VecTape_sigma ==
    /\ pc = "tape" /\ graph.kind = "vec::Tape" /\ Len(graph.nodes) < MaxNodes
    /\ \E vec \in NodeIds : graph' = vec_sigma(graph, vec)
    /\ Built(NewIndex(graph))

VecTape_relu ==
    /\ pc = "tape" /\ graph.kind = "vec::Tape" /\ Len(graph.nodes) < MaxNodes
    /\ \E vec \in NodeIds : graph' = vec_relu(graph, vec)
    /\ Built(NewIndex(graph))

VecTape_var ==
    /\ pc = "tape" /\ graph.kind = "vec::Tape" /\ Len(graph.nodes) < MaxNodes
    /\ \E name \in VecVarNames : graph' = vec_var(graph, name)
    /\ Built(NewIndex(graph))

VecTape_loss ==
    /\ pc = "tape" /\ graph.kind = "vec::Tape" /\ Len(graph.nodes) < MaxNodes
    /\ \E expected \in ExpectedTensors, actual \in NodeIds :
         graph' = loss(graph, expected, actual)
    /\ Built(NewIndex(graph))

\* the `match &self.node(&ix).expr` of vec::Tape::eval
vec_eval_value(nodes, ix, co_broadcast) ==
    LET expr == nodes[ix].expr IN
    CASE expr.op = "LitVec" -> expr.value
      [] expr.op = "AddVec" ->
           binary("+", nodes[expr.args[1]].z, nodes[expr.args[2]].z, co_broadcast)
      [] expr.op = "MultMat" -> dot(nodes[expr.args[1]].z, nodes[expr.args[2]].z)
      [] expr.op = "Sigma" -> map_sigma(nodes[expr.args[1]].z)
      [] expr.op = "Relu" -> map_relu(nodes[expr.args[1]].z)
      [] expr.op = "Var" -> nodes[ix].z
      [] expr.op = "Loss" -> loss_value(expr.expected, nodes[expr.args[1]].z)

\* `for (ix, value) in var_values { ...z = value }`, the callers giving every
\* Var node the value of its name
vec_set_var_values(nodes, values) ==
    [i \in DOMAIN nodes |->
        IF nodes[i].expr.op = "Var"
          THEN [nodes[i] EXCEPT !.z = values[nodes[i].expr.name]] ELSE nodes[i]]

\* vec::Tape::eval up to the loop
VecTape_eval_begin ==
    /\ pc = "tape" /\ graph.kind = "vec::Tape"
    /\ \E values \in VarTensors, t \in Ties :
         LET g1 == [graph EXCEPT !.nodes = vec_set_var_values(@, values)]
             sorted == toposort(g1, t)
         IN /\ graph' = g1
            /\ IF ~sorted.ok THEN Panicked("toposort")
               ELSE /\ pending' = sorted.order
                    /\ evaluated' = {}
                    /\ result' = [returned |-> "eval", value |-> zeros(<<>>)]
                    /\ pc' = IF sorted.order = <<>> THEN "tape" ELSE "eval"
    /\ last_grad' = NoResult
    /\ UNCHANGED <<output, tie>>
    /\ UNCHANGED <<state, action, sample, stepVars, episodeVars, learnVars, workerVars>>

\* one iteration of the loop of vec::Tape::eval, and the return after the
\* last; an array operation that panics ends the call
VecTape_eval_step ==
    /\ pc = "eval" /\ graph.kind = "vec::Tape"
    /\ \E value \in {vec_eval_value(graph.nodes, Head(pending), graph.co_broadcast)} :
         IF IsFault(value)
           THEN /\ Panicked("array")
                /\ UNCHANGED graph
           ELSE /\ graph' = [graph EXCEPT !.nodes[Head(pending)].z = value]
                /\ result' = [returned |-> "eval", value |-> value]
                /\ evaluated' = evaluated \cup {Head(pending)}
                /\ pending' = Tail(pending)
                /\ pc' = IF Tail(pending) = <<>> THEN "tape" ELSE "eval"
    /\ UNCHANGED <<output, tie, last_grad>>
    /\ UNCHANGED <<state, action, sample, stepVars, episodeVars, learnVars, workerVars>>

\* vec grad without `n.w = T::zeros(n.z.shape())`
vec_zero_w_skipped(nodes) == nodes

\* `for n in self.graph.node_weights_mut() { n.w = T::zeros(n.z.shape()) }`
vec_zero_w(nodes) == [i \in DOMAIN nodes |-> [nodes[i] EXCEPT !.w = zeros(nodes[i].z.shape)]]

\* the nodes a step of grad leaves, or that it panicked
Ok(nodes) == [ok |-> TRUE, nodes |-> nodes]
Failed(nodes) == [ok |-> FALSE, nodes |-> nodes]

\* `node_weight_mut(i).unwrap().w += &x`, a panic before or in it kept
vec_add_w(r, i, x) ==
    IF ~r.ok THEN r
    ELSE IF IsFault(x) THEN Failed(r.nodes)
    ELSE IF IsFault(add_assign(r.nodes[i].w, x)) THEN Failed(r.nodes)
    ELSE Ok([r.nodes EXCEPT ![i].w = add_assign(@, x)])

\* the `match n.expr` of vec::Tape::grad
vec_grad_node(nodes, ix, co_broadcast) ==
    LET expr == nodes[ix].expr
        w == nodes[ix].w
    IN CASE expr.op = "AddVec" ->
              vec_add_w(vec_add_w(Ok(nodes), expr.args[1], w), expr.args[2], w)
         [] expr.op = "MultMat" ->
              LET mat == expr.args[1]
                  vec == expr.args[2]
                  r1 == vec_add_w(Ok(nodes), vec, dot(transpose(nodes[mat].z), w))
              IN vec_add_w(r1, mat, outer_product(w, r1.nodes[vec].z))
         [] expr.op = "Sigma" ->
              vec_add_w(Ok(nodes), expr.args[1],
                        binary("*", w, map_sigma_deriv(nodes[expr.args[1]].z), co_broadcast))
         [] expr.op = "Relu" ->
              vec_add_w(Ok(nodes), expr.args[1],
                        binary("*", w, map_relu_deriv(nodes[expr.args[1]].z), co_broadcast))
         [] expr.op = "Loss" ->
              IF Len(w.shape) # 0 THEN Failed(nodes)
              ELSE vec_add_w(Ok(nodes), expr.args[1],
                             scale(w.data[1],
                                   binary("-", expr.expected, nodes[expr.args[1]].z,
                                          co_broadcast)))
         [] OTHER -> Ok(nodes)

\* vec::Tape::grad up to the loop
VecTape_grad_begin ==
    /\ pc = "tape" /\ graph.kind = "vec::Tape"
    /\ \E out \in NodeIds, t \in TiesOfGrad :
         LET seeded == [vec_zero_w(graph.nodes) EXCEPT ![out].w = ones(graph.nodes[out].z.shape)]
             g1 == reverse([graph EXCEPT !.nodes = seeded])
             sorted == toposort(g1, t)
         IN /\ output' = out
            /\ tie' = t
            /\ graph' = g1
            /\ IF ~sorted.ok THEN Panicked("toposort")
               ELSE /\ pending' = sorted.order
                    /\ evaluated' = {}
                    /\ result' = [returned |-> "grad", value |-> EmptyMap]
                    /\ pc' = "grad"
    /\ UNCHANGED last_grad
    /\ UNCHANGED <<state, action, sample, stepVars, episodeVars, learnVars, workerVars>>

\* one iteration of the loop of vec::Tape::grad, and after the last the graph
\* is reversed back and the map returned; an array operation that panics
\* ends the call with the graph reversed
VecTape_grad_step ==
    /\ pc = "grad" /\ graph.kind = "vec::Tape"
    /\ \E r \in {vec_grad_node(graph.nodes, Head(pending), graph.co_broadcast)} :
         IF ~r.ok
           THEN /\ Panicked("array")
                /\ UNCHANGED <<graph, last_grad, output>>
           ELSE LET n == graph.nodes[Head(pending)]
                    map == IF n.expr.op = "Var"
                             THEN insert(result.value, n.expr.name, n.w)
                             ELSE result.value
                    g1 == [graph EXCEPT !.nodes = r.nodes]
                    g2 == IF Tail(pending) = <<>> THEN reverse(g1) ELSE g1
                IN /\ graph' = g2
                   /\ result' = [returned |-> "grad", value |-> map]
                   /\ evaluated' = evaluated \cup {Head(pending)}
                   /\ pending' = Tail(pending)
                   /\ IF Tail(pending) = <<>>
                        THEN /\ pc' = "tape"
                             /\ last_grad' = [returned |-> "grad", output |-> output,
                                              nodes |-> r.nodes, value |-> map,
                                              again |-> GradAgain]
                             /\ output' = 0
                        ELSE UNCHANGED <<pc, last_grad, output>>
    /\ UNCHANGED tie
    /\ UNCHANGED <<state, action, sample, stepVars, episodeVars, learnVars, workerVars>>

NextVecTape ==
    \/ VecTape_lit \/ VecTape_add_vec \/ VecTape_mult_mat \/ VecTape_sigma
    \/ VecTape_relu \/ VecTape_var \/ VecTape_loss
    \/ VecTape_eval_begin \/ VecTape_eval_step
    \/ VecTape_grad_begin \/ VecTape_grad_step

SpecVecTape == InitVecTape /\ [][NextVecTape]_vars

\* both tapes
SpecTapes ==
    /\ InitTape \/ InitVecTape
    /\ [][\/ Tape_add \/ Tape_mult \/ Tape_var \/ Tape_sin \/ Tape_lit
          \/ Tape_eval_begin \/ Tape_eval_step
          \/ Tape_grad_begin \/ Tape_grad_step
          \/ VecTape_lit \/ VecTape_add_vec \/ VecTape_mult_mat \/ VecTape_sigma
          \/ VecTape_relu \/ VecTape_var \/ VecTape_loss
          \/ VecTape_eval_begin \/ VecTape_eval_step
          \/ VecTape_grad_begin \/ VecTape_grad_step]_vars

\* C11: in a pass of eval, of either tape, a node's z is computed only when
\* the z of each of its operands has been computed in that pass.
C11_OperandsFirst ==
    (pc = "eval" \/ (pc = "tape" /\ result.returned = "eval")) =>
        \A n \in evaluated :
            Operands(graph.nodes[n].expr) \subseteq evaluated

C11_Witness ==
    /\ graph.kind = "vec::Tape"
    /\ pc = "tape"
    /\ result.returned = "eval"
    /\ result.value = Tensor(<<2>>, <<F(6), F(12)>>)
    /\ \E n \in evaluated :
         /\ graph.nodes[n].expr.op = "MultMat"
         /\ Cardinality(Operands(graph.nodes[n].expr)) = 2

\* what grad sets the w of node i to before its loop
SeededW(nodes, i, out) ==
    IF graph.kind = "Tape" THEN (IF i = out THEN F(1) ELSE F(0))
    ELSE IF i = out THEN ones(nodes[i].z.shape) ELSE zeros(nodes[i].z.shape)

\* C12: grad sets every w to zero and the w of output to ones before its
\* loop and changes no z; a grad that follows a grad of the same output, with
\* no eval between them, leaves every node and returns the map as the first
\* one did.
C12_GradTwice ==
    [][/\ (pc = "tape" /\ pc' = "grad") =>
            \A i \in NodeIds : graph'.nodes[i].w = SeededW(graph.nodes, i, output')
       /\ (pc = "grad" \/ pc' = "grad") =>
            \A i \in NodeIds : graph'.nodes[i].z = graph.nodes[i].z
       /\ (pc = "grad" /\ pc' = "tape" /\ GradAgain) =>
            /\ graph'.nodes = last_grad.nodes
            /\ result'.value = last_grad.value]_vars

C12_Witness ==
    /\ graph.kind = "Tape"
    /\ pc = "tape"
    /\ last_grad.returned = "grad"
    /\ last_grad.again
    /\ \E n \in NodeIds :
         /\ graph.nodes[n].expr.op = "Mult"
         /\ graph.nodes[n].expr.args = <<1, 2>>
         /\ graph.nodes[n].w = F(1)
         /\ graph.nodes[1].w = F(1)
         /\ graph.nodes[2].w = F(2)
    /\ result.value = [name \in {"x1"} |-> F(1)]

\* C13: a builder call appends one node and changes no other, returns the
\* index of the new node and adds the edges from its operands to it and no
\* other; so every edge goes from a lower index to a higher one (the other
\* way round while grad has the graph reversed) and toposort finds no cycle.
C13_AppendOnly ==
    /\ [](\A e \in graph.edges : IF pc = "grad" \/ (pc = "panicked" /\ output # 0)
                                   THEN e[2] < e[1] ELSE e[1] < e[2])
    /\ [](pc = "panicked" => result.why # "toposort")
    /\ [][/\ Len(graph'.nodes) \in {Len(graph.nodes), Len(graph.nodes) + 1}
          /\ \A i \in NodeIds : graph'.nodes[i].expr = graph.nodes[i].expr
          /\ Len(graph'.nodes) = Len(graph.nodes) + 1 =>
               /\ result' = [returned |-> "node", value |-> Len(graph.nodes) + 1]
               /\ \A i \in NodeIds : graph'.nodes[i] = graph.nodes[i]
               /\ graph'.edges = graph.edges \cup
                    {<<o, Len(graph'.nodes)>> :
                        o \in Operands(graph'.nodes[Len(graph'.nodes)].expr)}]_vars

C13_Witness ==
    /\ graph.kind = "vec::Tape"
    /\ pc = "tape"
    /\ Len(graph.nodes) = 3
    /\ graph.nodes[3].expr.op = "AddVec"
    /\ graph.edges = {<<1, 3>>, <<2, 3>>}
    /\ result.returned = "node"
    /\ result.value = 3

\* the operands of node n have shapes its operation does not take
ShapeMismatch(nodes, n) ==
    LET expr == nodes[n].expr IN
    CASE expr.op = "AddVec" ->
           /\ Len(nodes[expr.args[1]].z.shape) = 1
           /\ Len(nodes[expr.args[2]].z.shape) = 1
           /\ nodes[expr.args[1]].z.shape # nodes[expr.args[2]].z.shape
      [] expr.op = "Loss" ->
           Len(expr.expected.data) # Len(nodes[expr.args[1]].z.data)
      [] expr.op = "MultMat" ->
           /\ Len(nodes[expr.args[1]].z.shape) = 2
           /\ Len(nodes[expr.args[2]].z.shape) = 1
           /\ nodes[expr.args[1]].z.shape[2] # nodes[expr.args[2]].z.shape[1]
      [] OTHER -> FALSE

\* C14: an eval of a tape one of whose nodes has operands of mismatched
\* shapes does not return.
C14_MismatchPanics ==
    (graph.kind = "vec::Tape" /\ pc = "tape" /\ result.returned = "eval") =>
        \A n \in NodeIds \cap evaluated : ~ShapeMismatch(graph.nodes, n)

(***************************************************************************)
(* src/src/easy_21.rs: get, set and update of V and Q, called with any     *)
(* state.  `self.0[i]` panics unless i is below the length of the Vec.     *)
(***************************************************************************)
\* number of get, set and update calls that change a cell
MaxWrites == 1

\* the totals the accessors are called with: on both sides of each end of
\* the coordinates 0..40
ProbeTotals == {-11, -10, 1, 21, 30, 31}
ProbeStates == {MkState(d, p) : d \in ProbeTotals, p \in ProbeTotals}

\* the coordinates of s lie inside the cube
in_cube(s) == s.player + 10 \in 0 .. 40 /\ s.dealer + 10 \in 0 .. 40

\* `self.0[i]` with i an i32 cast to usize: a negative i is above 2^63 as a
\* usize, so the access is inside the Vec exactly if 0 <= i < len
in_vec(i, len) == 0 <= i /\ i < len

\* the closure update is called with
flip(x) == FSub(F(1), x)

Written == Cardinality(DOMAIN v.cells) + Cardinality(DOMAIN q.cells)

InitTable ==
    /\ pc = "table"
    /\ NoLocals
    /\ v = V_init(F(0))
    /\ q = Q_init(F(0))
    /\ eligibility_traces = <<>>
    /\ episodes = 0
    /\ rms_error = RmsZero
    /\ algorithm = "None"
    /\ occurrences = <<>>
    /\ since = NoCells
    /\ NoTape
    /\ NoWorker
    /\ result = NoResult

\* what the call leaves of an access to cell i of a Vec of len cells
Accessed(s, a, i, len, returned) ==
    /\ state' = s
    /\ action' = a
    /\ IF in_vec(i, len)
         THEN /\ pc' = "table"
              /\ result' = returned
         ELSE /\ pc' = "panicked"
              /\ result' = [returned |-> "panic", why |-> "index"]
    /\ UNCHANGED <<card, dealer, sample, draws, sawRed, episodeVars,
                   eligibility_traces, episodes, rms_error, algorithm,
                   occurrences, since, tapeVars, workerVars>>

\* V::get
Table_V_get ==
    /\ pc = "table"
    /\ \E s \in ProbeStates :
         Accessed(s, action, V_index(s), cube_size(V_MAX),
                  [returned |-> "get", table |-> "V", cell |-> V_index(s),
                   value |-> V_get(v, s)])
    /\ UNCHANGED <<v, q>>

\* V::set
Table_V_set ==
    /\ pc = "table"
    /\ \E s \in ProbeStates :
         /\ Accessed(s, action, V_index(s), cube_size(V_MAX),
                     [returned |-> "set", table |-> "V", cell |-> V_index(s)])
         /\ in_vec(V_index(s), cube_size(V_MAX)) => Written < MaxWrites
         /\ v' = IF in_vec(V_index(s), cube_size(V_MAX))
                   THEN V_set(v, s, F(1)) ELSE v
    /\ UNCHANGED q

\* V::update
Table_V_update ==
    /\ pc = "table"
    /\ \E s \in ProbeStates :
         /\ Accessed(s, action, V_index(s), cube_size(V_MAX),
                     [returned |-> "update", table |-> "V", cell |-> V_index(s)])
         /\ in_vec(V_index(s), cube_size(V_MAX)) =>
                (Written < MaxWrites \/ V_index(s) \in DOMAIN v.cells)
         /\ v' = IF in_vec(V_index(s), cube_size(V_MAX))
                   THEN V_set(v, s, flip(V_get(v, s))) ELSE v
    /\ UNCHANGED q

\* Q::get
Table_Q_get ==
    /\ pc = "table"
    /\ \E s \in ProbeStates, a \in Action :
         Accessed(s, a, Q_index(s, a), cube_size(Q_MAX),
                  [returned |-> "get", table |-> "Q", cell |-> Q_index(s, a),
                   value |-> Q_get(q, s, a)])
    /\ UNCHANGED <<v, q>>

\* Q::set
Table_Q_set ==
    /\ pc = "table"
    /\ \E s \in ProbeStates, a \in Action :
         /\ Accessed(s, a, Q_index(s, a), cube_size(Q_MAX),
                     [returned |-> "set", table |-> "Q", cell |-> Q_index(s, a)])
         /\ in_vec(Q_index(s, a), cube_size(Q_MAX)) => Written < MaxWrites
         /\ q' = IF in_vec(Q_index(s, a), cube_size(Q_MAX))
                   THEN Q_set(q, s, a, F(1)) ELSE q
    /\ UNCHANGED v

\* Q::update
Table_Q_update ==
    /\ pc = "table"
    /\ \E s \in ProbeStates, a \in Action :
         /\ Accessed(s, a, Q_index(s, a), cube_size(Q_MAX),
                     [returned |-> "update", table |-> "Q", cell |-> Q_index(s, a)])
         /\ in_vec(Q_index(s, a), cube_size(Q_MAX)) =>
                (Written < MaxWrites \/ Q_index(s, a) \in DOMAIN q.cells)
         /\ q' = IF in_vec(Q_index(s, a), cube_size(Q_MAX))
                   THEN Q_set(q, s, a, flip(Q_get(q, s, a))) ELSE q
    /\ UNCHANGED v

NextTable ==
    \/ Table_V_get
    \/ Table_V_set
    \/ Table_V_update
    \/ Table_Q_get
    \/ Table_Q_set
    \/ Table_Q_update

SpecTable == InitTable /\ [][NextTable]_vars

\* C15: get, set or update of V or Q with a state one of whose coordinates
\* is outside 0..40 panics.
C15_OutOfCubePanics ==
    (pc \in {"table", "panicked"} /\ result.returned # "nothing" /\ ~in_cube(state)) =>
        pc = "panicked"

\* the totals of a state of a running game
in_play(s) == s.player \in 1 .. 21 /\ s.dealer \in 1 .. 10

\* the states the iteration of td_lambda_control or approx_td_lambda_control
\* that starts in this state can hand to epsilon_greedy as next_state
NextQueried ==
    IF pc \in {"tdc_loop", "approx_loop"}
      THEN {smp.state : smp \in step(Deck, state, action)}
      ELSE {}

\* C16: every state the policy is asked about has a player total in 1..21
\* and a dealer total in 1..10, and the totals of every state step returns
\* are in -10..31.
C16_QueriedInPlay ==
    /\ pc \in {"tdc_loop", "approx_loop"} => in_play(state)
    /\ \A s \in NextQueried :
         /\ in_play(s)
         /\ s.player \in -10 .. 31
         /\ s.dealer \in -10 .. 31

(***************************************************************************)
(* src/src/easy_21.rs: Vector::cuboid_features called with any state and   *)
(* action                                                                  *)
(***************************************************************************)
\* the totals of the states cuboid_features is called with
FeatureTotals == -10 .. 31

InitFeatures ==
    /\ pc = "features"
    /\ state \in {MkState(d, p) : d \in FeatureTotals, p \in FeatureTotals}
    /\ action \in Action
    /\ card = NoCard
    /\ dealer = 0
    /\ sample = NoSample
    /\ draws = 0
    /\ sawRed = FALSE
    /\ state_actions = <<>>
    /\ reward = 0
    /\ history = <<>>
    /\ NoLearner
    /\ NoTape
    /\ NoWorker
    /\ result = NoResult

\* `Vector::cuboid_features(&state, &action)`
Features_call ==
    /\ pc = "features"
    /\ result' = [returned |-> "features", value |-> cuboid_features(state, action)]
    /\ pc' = "done"
    /\ UNCHANGED <<state, action, stepVars, sample, episodeVars, learnVars,
                   tapeVars, workerVars>>

SpecFeatures == InitFeatures /\ [][Features_call]_vars

\* C17: cuboid_features returns 36 entries, each 0 or 1; counting from 0,
\* entry (d*6 + p)*2 + a is 1 exactly if the dealer total is in the d-th of
\* the intervals 1..4, 4..7, 7..10, the player total in the p-th of 1..6,
\* 4..9, 7..12, 10..15, 13..18, 16..21 and the action is Hit for a = 0, Stick
\* for a = 1; for player 4, dealer 4 and Stick the entries 1, 3, 13 and 15
\* are the ones that are 1.
C17_CuboidFeatures ==
    result.returned = "features" =>
        LET w == result.value
            dealer_lo == [d \in 0 .. 2 |-> 1 + 3 * d]
            player_lo == [p \in 0 .. 5 |-> 1 + 3 * p]
        IN /\ Len(w) = 36
           /\ \A i \in 1 .. 36 : w[i] \in {F(0), F(1)}
           /\ \A d \in 0 .. 2, p \in 0 .. 5, a \in 0 .. 1 :
                (w[(d * 6 + p) * 2 + a + 1] = F(1)) <=>
                    /\ state.dealer \in dealer_lo[d] .. dealer_lo[d] + 3
                    /\ state.player \in player_lo[p] .. player_lo[p] + 5
                    /\ action = (IF a = 0 THEN Hit ELSE Stick)
           /\ (state = MkState(4, 4) /\ action = Stick) =>
                {i \in 0 .. 35 : w[i + 1] = F(1)} = {1, 3, 13, 15}

C17_Witness ==
    /\ result.returned = "features"
    /\ state = MkState(4, 4)
    /\ action = Stick
    /\ result.value[14] = F(1)
    /\ result.value[13] = F(0)

(***************************************************************************)
(* src/src/learn.rs: queryable_state, with the frames of main_loop of      *)
(* src/src/main.rs as the other thread.  The learner state is kept as its  *)
(* episode counter and whether an update is half done.                     *)
(***************************************************************************)
\* the episode counter is kept up to MaxUpdates; MaxUpdates stands for it
\* and everything above
MaxUpdates == 2

ReqCapacity == 2
RespCapacity == 1

GetState == [type |-> "GetState"]
SetState(s) == [type |-> "SetState", state |-> s]

\* number of times the Reset button is pressed
MaxResets == 1

\* ApproxState::init(); origin tells the values apart: 0 for the one
\* queryable_state was called with, k for the one of the k-th SetState
Learner_new(k) == [episodes |-> 0, partial |-> FALSE, origin |-> k]
Learner_init == Learner_new(0)

\* the state while update runs
update_begin(s) == [s EXCEPT !.partial = TRUE]

\* the state update leaves: one more episode
update_end(s) ==
    [s EXCEPT !.episodes = IF s.episodes < MaxUpdates THEN s.episodes + 1
                                                         ELSE MaxUpdates,
              !.partial = FALSE]

\* `state.clone()`
clone(s) == s

\* `state = new_state`, keeping the episode counter
set_state_keeps_episodes(old, new) == [new EXCEPT !.episodes = old.episodes]

\* `Req::SetState { state: new_state } => state = new_state`
set_state(old, new) == new

\* main up to main_loop: `let mut state = ApproxState::init()`,
\* `queryable_state(state.clone(), ..)`; the spawned thread at `loop {`
InitWorker ==
    /\ pc = "worker_update_call"
    /\ NoLocals
    /\ NoLearner
    /\ NoTape
    /\ result = NoResult
    /\ req = <<>>
    /\ resp = <<>>
    /\ worker_state = clone(Learner_init)
    /\ ui_state = Learner_init
    /\ ui_pc = "try_iter"
    /\ committed = {Learner_init}
    /\ produced = NoResult
    /\ resets = 0

WorkerUnchanged ==
    UNCHANGED <<state, action, card, dealer, sample, draws, sawRed,
                episodeVars, learnVars, tapeVars>>

\* `update(&mut rng, &mut state)` is entered
Worker_update_begin ==
    /\ pc = "worker_update_call"
    /\ worker_state' = update_begin(worker_state)
    /\ pc' = "worker_updating"
    /\ result' = NoResult
    /\ UNCHANGED <<req, resp, ui_state, ui_pc, committed, produced, resets>>
    /\ WorkerUnchanged

\* update returns
Worker_update_end ==
    /\ pc = "worker_updating"
    /\ worker_state' = update_end(worker_state)
    /\ committed' = committed \cup {worker_state'}
    /\ pc' = "worker_try_recv"
    /\ UNCHANGED <<req, resp, ui_state, ui_pc, result, produced, resets>>
    /\ WorkerUnchanged

\* `if let Ok(req) = req_r.try_recv() { match req { .. } }` up to the try_send:
\* Err (Empty or Disconnected) is passed over; SetState replaces the state
Worker_try_recv ==
    /\ pc = "worker_try_recv"
    /\ IF req = <<>>
         THEN /\ pc' = "worker_update_call"
              /\ UNCHANGED <<req, worker_state, committed>>
         ELSE /\ req' = Tail(req)
              /\ IF Head(req).type = "GetState"
                   THEN /\ pc' = "worker_try_send"
                        /\ UNCHANGED <<worker_state, committed>>
                   ELSE /\ worker_state' = set_state(worker_state, Head(req).state)
                        /\ committed' = committed \cup {worker_state'}
                        /\ pc' = "worker_update_call"
    /\ UNCHANGED <<resp, ui_state, ui_pc, result, produced, resets>>
    /\ WorkerUnchanged

\* the try_send that answers GetState while update is running
Worker_try_send_mid_update ==
    /\ pc \in {"worker_try_send", "worker_updating"}
    /\ IF ui_pc = "closed"
         THEN /\ pc' = "panicked"
              /\ result' = [returned |-> "panic", why |-> "Disconnected"]
              /\ resp' = resp
              /\ produced' = produced
         ELSE /\ pc' = "worker_update_call"
              /\ produced' = clone(worker_state)
              /\ resp' = IF Len(resp) < RespCapacity
                           THEN Append(resp, clone(worker_state)) ELSE resp
              /\ result' = [returned |-> "try_send",
                            value |-> IF Len(resp) < RespCapacity THEN "Ok" ELSE "Full",
                            pending |-> req]
    /\ UNCHANGED <<req, worker_state, ui_state, ui_pc, committed, resets>>
    /\ WorkerUnchanged

\* `resp_s.try_send(state.clone())`: panic on Disconnected, Full is passed over
Worker_try_send ==
    /\ pc = "worker_try_send"
    /\ IF ui_pc = "closed"
         THEN /\ pc' = "panicked"
              /\ result' = [returned |-> "panic", why |-> "Disconnected"]
              /\ resp' = resp
              /\ produced' = produced
         ELSE /\ pc' = "worker_update_call"
              /\ produced' = clone(worker_state)
              /\ resp' = IF Len(resp) < RespCapacity
                           THEN Append(resp, clone(worker_state)) ELSE resp
              /\ result' = [returned |-> "try_send",
                            value |-> IF Len(resp) < RespCapacity THEN "Ok" ELSE "Full",
                            pending |-> req]
    /\ UNCHANGED <<req, worker_state, ui_state, ui_pc, committed, resets>>
    /\ WorkerUnchanged

\* `for s in resp.try_iter() { state = s }`
UI_try_iter ==
    /\ ui_pc = "try_iter"
    /\ ui_state' = IF resp = <<>> THEN ui_state ELSE resp[Len(resp)]
    /\ resp' = <<>>
    /\ ui_pc' = "try_send"
    /\ UNCHANGED <<pc, req, worker_state, committed, result, produced, resets>>
    /\ WorkerUnchanged

\* `req.try_send(Req::GetState)`: Full is passed over
UI_try_send ==
    /\ ui_pc = "try_send"
    /\ req' = IF Len(req) < ReqCapacity THEN Append(req, GetState) ELSE req
    /\ ui_pc' = "button"
    /\ UNCHANGED <<pc, resp, worker_state, ui_state, committed, result,
                   produced, resets>>
    /\ WorkerUnchanged

\* the Reset button was not pressed in this frame
UI_no_reset ==
    /\ ui_pc = "button"
    /\ ui_pc' = "try_iter"
    /\ UNCHANGED <<pc, req, resp, worker_state, ui_state, committed, result,
                   produced, resets>>
    /\ WorkerUnchanged

\* the Reset button: `req.send(Req::SetState { .. })` waits for room
UI_reset ==
    /\ ui_pc = "button"
    /\ Len(req) < ReqCapacity
    /\ resets < MaxResets
    /\ req' = Append(req, SetState(Learner_new(resets + 1)))
    /\ resets' = resets + 1
    /\ ui_pc' = "try_iter"
    /\ UNCHANGED <<pc, resp, worker_state, ui_state, committed, result, produced>>
    /\ WorkerUnchanged

\* main_loop returns or main unwinds: req and resp are dropped
UI_close ==
    /\ ui_pc \in {"try_iter", "try_send", "button"}
    /\ ui_pc' = "closed"
    /\ UNCHANGED <<pc, req, resp, worker_state, ui_state, committed, result,
                   produced, resets>>
    /\ WorkerUnchanged

WorkerNext ==
    \/ Worker_update_begin
    \/ Worker_update_end
    \/ Worker_try_recv
    \/ Worker_try_send

UINext ==
    \/ UI_try_iter
    \/ UI_try_send
    \/ UI_no_reset
    \/ UI_reset
    \/ UI_close

SpecWorker == InitWorker /\ [][WorkerNext \/ UINext]_vars

\* the spawned thread keeps being scheduled
SpecWorkerFair == SpecWorker /\ WF_vars(WorkerNext)

\* C18: every snapshot in the response channel, and the copy main holds, is
\* a state the worker had between two calls of update, and a step of the
\* worker changes neither the snapshots in the channel nor main's copy.
C18_Snapshots ==
    /\ [](\A i \in DOMAIN resp : resp[i] \in committed /\ ~resp[i].partial)
    /\ [](ui_state \in committed /\ ~ui_state.partial)
    /\ [][pc' # pc =>
            /\ ui_state' = ui_state
            /\ resp' = resp \/ (resp' = Append(resp, worker_state) /\ pc = "worker_try_send")]_vars

C18_Witness ==
    /\ pc = "worker_updating"
    /\ worker_state = [episodes |-> 1, partial |-> TRUE, origin |-> 0]
    /\ resp = <<[episodes |-> 1, partial |-> FALSE, origin |-> 0]>>
    /\ ui_state = [episodes |-> 0, partial |-> FALSE, origin |-> 0]

\* s is the beginning of t
IsPrefix(s, t) == Len(s) <= Len(t) /\ SubSeq(t, 1, Len(s)) = s

\* C19: when the worker starts an update after it answered a GetState, the
\* requests that were in the channel when it answered are no longer there.
C19_Drained ==
    [][(pc = "worker_update_call" /\ pc' = "worker_updating"
            /\ result.returned = "try_send") =>
          (result.pending = <<>> \/ ~IsPrefix(result.pending, req))]_vars

\* C20: once main dropped req and resp, the worker stops.
C20_WorkerStops == (ui_pc = "closed") ~> (pc = "panicked")

\* main takes a snapshot from the response channel
UITakes == ui_pc = "try_iter" /\ ui_pc' = "try_send" /\ resp # <<>>

\* C21: the snapshot main takes from the response channel is the one the
\* worker made for the GetState it handled last.
C21_LatestValueWins == [][UITakes => ui_state' = produced]_vars

\* the worker handles a SetState
HandlesSetState ==
    pc = "worker_try_recv" /\ req # <<>> /\ Head(req).type = "SetState"

\* C22: handling SetState makes the worker's state the state of the request;
\* every other step of the worker keeps the origin of its state, an update
\* adds one episode to it (up to MaxUpdates) and nothing else, and a
\* snapshot put on the response channel is the worker's state, which is not
\* in the middle of an update.
C22_SetStateReplaces ==
    [][pc' # pc =>
         /\ HandlesSetState => worker_state' = Head(req).state
         /\ ~HandlesSetState => worker_state'.origin = worker_state.origin
         /\ pc' = "worker_try_recv" =>
              /\ worker_state'.episodes \in {worker_state.episodes + 1, MaxUpdates}
              /\ ~worker_state'.partial
         /\ resp' # resp =>
              /\ resp' = Append(resp, worker_state)
              /\ ~worker_state.partial]_vars

C22_Witness ==
    /\ worker_state = [episodes |-> 1, partial |-> FALSE, origin |-> 1]
    /\ resp = <<[episodes |-> 1, partial |-> FALSE, origin |-> 1]>>
    /\ ui_state.origin = 0
    /\ ui_state.episodes = 2

\* C30: after main's send of the k-th SetState returned, a snapshot main
\* takes from the response channel comes from the state of that request.
C30_SnapshotsAfterReset == [][UITakes => ui_state'.origin = resets]_vars

\* the cells of table t or of the traces e that may differ from the rest
CellsOf(t, e) == DOMAIN t.cells \cup DOMAIN e.cells

\* C23: a step of td_lambda_prediction from `state` has a sample of step
\* with which, the TD error being reward + V(next) - V(current) read from the
\* table before the step, every cell's value grows by
\* 1/(10 + visits) * TD error * trace, with the visits the cell had before
\* the step and the trace it has after the step's update of the traces; a
\* cell with trace 0 keeps its value, the visits of the current cell grow
\* by 1 and no other visit count changes.
C23_PredictionSweep ==
    [][(pc = "tdp_loop" /\ algorithm = "TDLambdaPrediction") =>
         \E a \in Action : \E smp \in step(Deck, state, a) :
            LET td_error == FSub(FAdd(F(smp.reward), V_get(v, smp.state)[1]),
                                 V_get(v, state)[1])
                cells == CellsOf(v, eligibility_traces') \cup DOMAIN v'.cells
                                \cup {V_index(state), -1}
            IN /\ smp.terminal <=> pc' = "idle"
               /\ \A i \in cells :
                    LET old == Vec_get(v, i)
                        new == Vec_get(v', i)
                        trace == Vec_get(eligibility_traces', i)
                    IN /\ new[1] = FAdd(old[1],
                                        FMul(FMul(FDiv(F(1), F(10 + old[2])), td_error),
                                             trace))
                       /\ trace = F(0) => new[1] = old[1]
                       /\ new[2] = IF i = V_index(state) THEN old[2] + 1 ELSE old[2]]_vars

C23_Witness ==
    /\ algorithm = "TDLambdaPrediction"
    /\ pc = "idle"
    /\ \E i, j \in DOMAIN v.cells :
         /\ v.cells[i] = <<Frac(-1, 10), 1>>
         /\ Vec_get(eligibility_traces, i) = F(1)
         /\ v.cells[j] = <<FMul(Frac(-1, 11), lambda_prediction), 1>>
         /\ Vec_get(eligibility_traces, j) = lambda_prediction

\* step(rng, s, a) for the states of a running game, as a table
StepSamples == [s \in LegalStates |-> [a \in Action |-> step(Deck, s, a)]]

\* the samples step(rng, s, a) can return
Samples(s, a) == IF s \in LegalStates THEN StepSamples[s][a] ELSE step(Deck, s, a)

\* td_lambda_control and approx_td_lambda_control
SpecSarsa ==
    /\ InitTDControl \/ InitApprox
    /\ [][TDControlCall \/ TDControlIteration \/ ApproxCall \/ ApproxIteration]_vars

RECURSIVE Partial(_, _, _)
\* the partial derivative, with respect to the variable called name, of the
\* expression of node n, at the values the nodes hold
Partial(nodes, n, name) ==
    LET expr == nodes[n].expr IN
    CASE expr.op = "Var" -> IF expr.name = name THEN F(1) ELSE F(0)
      [] expr.op = "Lit" -> F(0)
      [] expr.op = "Add" ->
           FAdd(Partial(nodes, expr.args[1], name), Partial(nodes, expr.args[2], name))
      [] expr.op = "Mult" ->
           FAdd(FMul(Partial(nodes, expr.args[1], name), nodes[expr.args[2]].z),
                FMul(nodes[expr.args[1]].z, Partial(nodes, expr.args[2], name)))
      [] expr.op = "Sin" ->
           FMul(f64_cos(nodes[expr.args[1]].z), Partial(nodes, expr.args[1], name))

\* every z is the value eval gives the node from the z of its operands
EvalDone(nodes) ==
    \A n \in DOMAIN nodes :
        nodes[n].expr.op # "Var" => nodes[n].z = eval_value(nodes, n)

\* C26: after eval, the map grad(output) returns for a tape of Add, Mult,
\* Lit and Var nodes holds, for each variable, the partial derivative of
\* the expression of output with respect to it.
C26_GradIsDerivative ==
    (/\ graph.kind = "Tape"
     /\ pc = "tape"
     /\ last_grad.returned = "grad"
     /\ \A n \in NodeIds : graph.nodes[n].expr.op # "Sin"
     /\ EvalDone(graph.nodes)) =>
        \A name \in DOMAIN last_grad.value :
            last_grad.value[name] = Partial(graph.nodes, last_grad.output, name)

(***************************************************************************)
(* src/src/easy_21.rs: V::index and Q::index on the states of play         *)
(***************************************************************************)
\* the states step is called with, by V::index's reading of State
NonTerminalStates == {MkState(d, p) : d \in 1 .. 10, p \in 1 .. 21}
\* the totals a Hit can leave: the player's moved by one card
AfterHitStates == {MkState(d, p) : d \in 1 .. 10, p \in -9 .. 31}
\* the totals a Stick can leave: the dealer's after its last card
AfterStickStates == {MkState(d, p) : d \in -9 .. 26, p \in 1 .. 21}
OccurringStates == NonTerminalStates \cup AfterHitStates \cup AfterStickStates

InitIndex ==
    /\ pc = "index"
    /\ state \in OccurringStates
    /\ action \in Action
    /\ card = NoCard
    /\ dealer = 0
    /\ sample = NoSample
    /\ draws = 0
    /\ sawRed = FALSE
    /\ state_actions = <<>>
    /\ reward = 0
    /\ history = <<>>
    /\ NoLearner
    /\ NoTape
    /\ NoWorker
    /\ result = NoResult

\* `Self::index(state)` of V
V_index_call ==
    /\ pc = "index"
    /\ result' = [returned |-> "V::index", value |-> V_index(state)]
    /\ pc' = "done"
    /\ UNCHANGED <<state, action, stepVars, sample, episodeVars, learnVars,
                   tapeVars, workerVars>>

\* `Self::index(state, action)` of Q
Q_index_call ==
    /\ pc = "index"
    /\ result' = [returned |-> "Q::index", value |-> Q_index(state, action)]
    /\ pc' = "done"
    /\ UNCHANGED <<state, action, stepVars, sample, episodeVars, learnVars,
                   tapeVars, workerVars>>

SpecIndex == InitIndex /\ [][V_index_call \/ Q_index_call]_vars

\* C27: the states of play are the non-terminal ones (player 1..21, dealer
\* 1..10), those a Hit leaves (player -9..31, dealer 1..10) and those a
\* Stick leaves (player 1..21, dealer -9..26); for each of them V::index and
\* Q::index give an index inside the Vec, and no other state of play (for
\* Q: no other pair of a state of play and an action) has the same index.
C27_IndexInjective ==
    /\ state \in NonTerminalStates =>
         \A a \in Action : \A smp \in Samples(state, a) :
            smp.state \in (IF a = Hit THEN AfterHitStates ELSE AfterStickStates)
    /\ result.returned = "V::index" =>
         /\ in_vec(result.value, cube_size(V_MAX))
         /\ \A s \in OccurringStates : s # state => V_index(s) # result.value
    /\ result.returned = "Q::index" =>
         /\ in_vec(result.value, cube_size(Q_MAX))
         /\ \A s \in OccurringStates, a \in Action :
              <<s, a>> # <<state, action>> => Q_index(s, a) # result.value

\* the last cell of a row: player 31 against dealer 10, with Stick
C27_Witness ==
    /\ result.returned = "Q::index"
    /\ state = MkState(10, 31)
    /\ action = Stick
    /\ result.value = 1681 + 20 * 41 + 41

(***************************************************************************)
(* The cells of terminal states under td_lambda_prediction and             *)
(* td_lambda_control                                                       *)
(***************************************************************************)
\* the states with a cell of their own, and those step can return, that
\* are terminal
TerminalStates ==
    {s \in {MkState(d, p) : d \in -10 .. 30, p \in -10 .. 30} \cup OccurringStates :
        ~in_play(s)}
TerminalCellsV == {V_index(s) : s \in TerminalStates}
TerminalCellsQ == {Q_index(s, a) : s \in TerminalStates, a \in Action}

\* the cells of a table that are among `among` hold zero
ZeroAt(t, among, zero) ==
    /\ t.default = zero
    /\ \A i \in DOMAIN t.cells : i \in among => t.cells[i] = zero

\* C28: under td_lambda_prediction and td_lambda_control the value, the
\* visit count and the trace kept for every terminal state (player outside
\* 1..21 or dealer outside 1..10) are zero at all times, and for every
\* terminal sample step can return in the current step the TD error is the
\* reward minus the value of the current cell.
C28_TerminalCellsZero ==
    /\ algorithm = "TDLambdaPrediction" =>
         /\ ZeroAt(v, TerminalCellsV, <<F(0), 0>>)
         /\ ZeroAt(eligibility_traces, TerminalCellsV, F(0))
         /\ pc = "tdp_loop" =>
              \A a \in PolicyAnswers("example_policy", state) :
              \A smp \in Samples(state, a) :
                 smp.terminal =>
                    /\ smp.state \in TerminalStates
                    /\ td_error_of(smp.reward, V_get(v, smp.state)[1], V_get(v, state)[1])
                         = FSub(F(smp.reward), V_get(v, state)[1])
    /\ algorithm = "TDLambdaControl" =>
         /\ ZeroAt(v, TerminalCellsV, <<F(0), 0>>)
         /\ ZeroAt(q, TerminalCellsQ, <<F(0), 0>>)
         /\ ZeroAt(eligibility_traces, TerminalCellsQ, F(0))
         /\ pc = "tdc_loop" =>
              \A smp \in Samples(state, action) :
                 smp.terminal =>
                    /\ smp.state \in TerminalStates
                    /\ \A next_action \in Action :
                         td_error_of(smp.reward, Q_get(q, smp.state, next_action)[1],
                                     Q_get(q, state, action)[1])
                           = FSub(F(smp.reward), Q_get(q, state, action)[1])

\* the last call of td_lambda_control has returned and has learned
C28_Witness ==
    /\ algorithm = "TDLambdaControl"
    /\ pc = "idle"
    /\ episodes = MaxEpisodes
    /\ \E i \in DOMAIN q.cells : q.cells[i][1] # F(0) /\ q.cells[i][2] = 2

\* C29: under monte_carlo_control and under td_lambda_control, for every
\* state s the visit count in V[s] is the sum of the visit counts in
\* Q[s, Hit] and Q[s, Stick].
C29_VisitsAddUp ==
    algorithm \in {"MonteCarloControl", "TDLambdaControl"} =>
        /\ \A s \in WrittenStates(v, q) \cup {state} :
              V_get(v, s)[2] = Q_get(q, s, Hit)[2] + Q_get(q, s, Stick)[2]
        \* every other state: its cells hold what V::init and Q::init put there
        /\ v.default[2] = q.default[2] + q.default[2]

\* a state that was visited once with each action
C29_WitnessMC ==
    /\ algorithm = "MonteCarloControl"
    /\ pc = "idle"
    /\ \E s \in State_init(Deck) :
         /\ V_get(v, s)[2] = 2
         /\ Q_get(q, s, Hit)[2] = 1
         /\ Q_get(q, s, Stick)[2] = 1

C29_WitnessTD ==
    /\ algorithm = "TDLambdaControl"
    /\ pc = "idle"
    /\ \E s \in State_init(Deck) :
         /\ V_get(v, s)[2] = 2
         /\ Q_get(q, s, Hit)[2] = 1
         /\ Q_get(q, s, Stick)[2] = 1

\* both learners have come to such a state
C29_Witness == C29_WitnessMC \/ C29_WitnessTD

====
